---- MODULE Spec2Model ----
(***************************************************************************)
(* Metadata reconciliation engine of laborit_etl_mapper: the ETL-vs-S3     *)
(* comparators, the ETL-vs-system comparators and the consolidators of the *)
(* Chama, Consultor Turbo and Portal Turbo product lines.                  *)
(*                                                                         *)
(* Documents are the JSON files the stages exchange on disk.  A name is a  *)
(* sequence of one-character strings, so that lower() and strip() are      *)
(* computed character by character.  Python dicts are sequences of         *)
(* [k, v] entries in insertion order.  Timestamps (generated_at) and       *)
(* console output are left out.                                            *)
(***************************************************************************)
EXTENDS Integers, Sequences, FiniteSets, TLC

VARIABLES
    etl,       \* output/chama/etl_metadata/chama_etl_metadata.json
    s3,        \* output/chama/from_santander_metadata/from_santander_metadata.json
    sys,       \* chama_system.json
    s3cmp,     \* output/chama/s3_vs_etl/s3_vs_etl_metadata.json
    syscmp,    \* output/chama/etl_vs_system/etl_vs_system_metadata.json
    cons,      \* output/chama/consolidated_metadata/consolidated_metadata.json
    ctEtl,     \* Consultor Turbo ETL metadata document
    ctS3,      \* Consultor Turbo from_santander_metadata.json
    ctSys,     \* consultor_system.json
    ctS3cmp,   \* Consultor Turbo s3_vs_etl_metadata.json
    ctSyscmp,  \* Consultor Turbo etl_vs_system_metadata.json
    ptEtl,     \* output/portal_turbo/etl_metadata/portal_etl_metadata.json
    ptS3,      \* output/portal_turbo/from_santander_metadata/from_santander_metadata.json
    ptS3cmp,   \* output/portal_turbo/s3_vs_etl/s3_vs_etl_metadata.json
    ptSyscmp,  \* output/portal_turbo/etl_vs_system/etl_vs_system_metadata.json
    ptCons,    \* output/portal_turbo/consolidated_metadata/consolidated_metadata.json
    project,   \* the project whose services are being run
    last,      \* the operation that ran last and how it ended
    nameIn,    \* the name handed to the normalizers
    normOut,   \* what each normalizer returned for it
    pc,        \* run_app.main: the project and the stage it is at
    run,       \* how many times main has been started
    stamp,     \* the run that last wrote each Chama document
    outcome,   \* how each project of the current run ended
    trace,     \* the stages the current project has reached, in order
    wiki,      \* the pages of the Confluence space, by page id
    pub,       \* publish_from_json: its position, its locals and its result
    log        \* the write requests and the waits of the current publication

vars == <<etl, s3, sys, s3cmp, syscmp, cons, ctEtl, ctS3, ctSys, ctS3cmp,
          ctSyscmp, ptEtl, ptS3, ptS3cmp, ptSyscmp, ptCons, project, last,
          nameIn, normOut, pc, run, stamp, outcome, trace, wiki, pub, log>>

chamaVars == <<etl, s3, sys, s3cmp, syscmp, cons>>
ctVars == <<ctEtl, ctS3, ctSys, ctS3cmp, ctSyscmp>>
ptVars == <<ptEtl, ptS3, ptS3cmp, ptSyscmp, ptCons>>
normVars == <<nameIn, normOut>>
pipeVars == <<pc, run, stamp, outcome, trace>>
pubVars == <<wiki, pub, log>>

(***************************************************************************)
(* Bounds                                                                  *)
(***************************************************************************)
\* nodes (files + mappings + fields) of an ETL document
MaxEtlSize == 4
\* nodes (files + fields or columns) of a storage document
MaxS3Size == 3
\* usage records of a usage document
MaxSysTables == 1
\* entries of one unused-column dict or list
MaxUnused == 2

(***************************************************************************)
(* Names                                                                   *)
(***************************************************************************)
\* Python None where a name is expected
NoneVal == <<"None">>

\* the AttributeError that None.lower() raises, in the place of a result
Raises == <<"AttributeError">>

\* str.lower() on one character
LowerChar(c) ==
    CASE c = "A" -> "a"
      [] c = "B" -> "b"
      [] OTHER -> c

\* str.lower()
Lower(s) == [i \in DOMAIN s |-> LowerChar(s[i])]

\* the whitespace characters of the names
IsSpace(c) == c \in {" ", "\t"}

\* str.strip(): drops leading and trailing whitespace
RECURSIVE LStrip(_)
LStrip(s) == IF s # <<>> /\ IsSpace(Head(s)) THEN LStrip(Tail(s)) ELSE s

RECURSIVE RStrip(_)
RStrip(s) ==
    IF s # <<>> /\ IsSpace(s[Len(s)]) THEN RStrip(SubSeq(s, 1, Len(s) - 1)) ELSE s

\* a variant of Strip that keeps the trailing whitespace
Strip_leading(s) == LStrip(s)

Strip(s) == RStrip(LStrip(s))

\* ChamaS3ComparatorService.normalize_column_name
normalize_column_name(col_name) ==
    IF col_name = NoneVal THEN Raises ELSE Strip(Lower(col_name))

\* ChamaETLSystemComparatorService.normalize_column_name: '' for a falsy name
Sys_normalize_column_name(col_name) ==
    IF col_name = <<>> \/ col_name = NoneVal THEN <<>> ELSE Strip(Lower(col_name))

\* ChamaFromSystemService._normalize_name
FromSystem_normalize_name(name) ==
    IF name = NoneVal THEN Raises ELSE Strip(Lower(name))

\* ChamaConsolidatedMetadataService._normalize_name
Cons_normalize_name(name) ==
    IF name = NoneVal THEN Raises ELSE Strip(Lower(name))

\* PortalTurboConsolidatedMetadataService._normalize_name: '' for a falsy name
Pt_normalize_name(name) ==
    IF name = <<>> \/ name = NoneVal THEN <<>> ELSE Strip(Lower(name))

(***************************************************************************)
(* Python dicts and lists                                                  *)
(***************************************************************************)
DictHas(d, k) == \E i \in DOMAIN d : d[i].k = k

DictGet(d, k) == d[CHOOSE i \in DOMAIN d : d[i].k = k].v

\* d[k] = v : an existing key keeps its position and takes the new value
DictPut(d, k, v) ==
    IF DictHas(d, k)
    THEN [i \in DOMAIN d |-> IF d[i].k = k THEN [k |-> k, v |-> v] ELSE d[i]]
    ELSE Append(d, [k |-> k, v |-> v])

DictKeys(d) == {d[i].k : i \in DOMAIN d}

\* the elements of list s that satisfy Keep, in order
RECURSIVE SelectIdx(_, _)
SelectIdx(s, keepIdx) ==
    IF s = <<>> THEN <<>>
    ELSE LET n == Len(s)
             init == SelectIdx(SubSeq(s, 1, n - 1), keepIdx \ {n})
         IN IF n \in keepIdx THEN Append(init, s[n]) ELSE init

\* number of indices of s in the set idx
CountIdx(s, idx) == Cardinality(DOMAIN s \cap idx)

\* a document that is not on disk
Absent == [absent |-> TRUE]

\* json.load(...).get('files', []) ; a loader returns {} for a missing file
FilesOf(doc) == IF doc = Absent THEN <<>> ELSE doc.files

(***************************************************************************)
(* Input documents                                                         *)
(***************************************************************************)
\* file keys, in lexicographic order
KeyOrder == <<"f1", "f2">>
FileKeys == {KeyOrder[i] : i \in DOMAIN KeyOrder}
KeyRank(k) == CHOOSE i \in DOMAIN KeyOrder : KeyOrder[i] = k

\* (map, table) of the mappings of the ETL architecture
MappingIds == {[map |-> "m1", table |-> "t1"], [map |-> "m2", table |-> "t2"]}

\* fields of the ETL architecture: two of them differ only in case and
\* surrounding whitespace, one has empty names
EtlFieldPool ==
    { [from_santander |-> <<"A", "b">>, laborit |-> <<"b">>, type |-> "int"],
      [from_santander |-> <<"A", "B", " ">>, laborit |-> <<" ", "B">>, type |-> "str"],
      [from_santander |-> <<"b">>, laborit |-> <<"a">>, type |-> "int"],
      [from_santander |-> <<>>, laborit |-> <<>>, type |-> ""] }

\* fields of the S3 metadata archives; the name of one of them is a blank
S3FieldPool ==
    { [from_santander |-> <<"a", "B">>, laborit |-> <<"b">>, type |-> "str"],
      [from_santander |-> <<" ", "a", "b">>, laborit |-> <<"a">>, type |-> "int"],
      [from_santander |-> <<"a">>, laborit |-> <<"a">>, type |-> "int"],
      [from_santander |-> <<" ">>, laborit |-> <<>>, type |-> ""] }

\* a document grows by a file, by a mapping of its last file or by a field
\* of the last mapping of its last file
AddFile(doc, name) == [files |-> Append(doc.files, [name |-> name, mappings |-> <<>>])]

AddMapping(doc, id) ==
    LET n == Len(doc.files)
        f == doc.files[n]
    IN [files |-> [doc.files EXCEPT ![n] =
            [f EXCEPT !.mappings =
                Append(@, [map |-> id.map, table |-> id.table, fields |-> <<>>])]]]

AddField(doc, fld) ==
    LET n == Len(doc.files)
        f == doc.files[n]
        m == Len(f.mappings)
    IN [files |-> [doc.files EXCEPT ![n] =
            [f EXCEPT !.mappings[m].fields = Append(@, fld)]]]

Grow(doc, ids, pool) ==
    {AddFile(doc, k) : k \in FileKeys}
    \cup (IF doc.files # <<>>
          THEN {AddMapping(doc, id) : id \in ids} ELSE {})
    \cup (IF doc.files # <<>> /\ doc.files[Len(doc.files)].mappings # <<>>
          THEN {AddField(doc, fld) : fld \in pool} ELSE {})

RECURSIVE DocsUpTo(_, _, _)
DocsUpTo(n, ids, pool) ==
    IF n = 0 THEN {[files |-> <<>>]}
    ELSE LET prev == DocsUpTo(n - 1, ids, pool)
         IN prev \cup UNION {Grow(d, ids, pool) : d \in prev}

EtlDocs == DocsUpTo(MaxEtlSize, MappingIds, EtlFieldPool)

\* the ETL documents whose mappings all have the same (map, table)
EtlDocsOneMap ==
    {d \in EtlDocs :
        \A i \in DOMAIN d.files : \A j \in DOMAIN d.files[i].mappings :
            d.files[i].mappings[j].map = "m1"}

\* the ETL documents with at most one file
EtlDocsOneFile ==
    {d \in EtlDocs :
        Len(d.files) <= 1 /\ \A i \in DOMAIN d.files : d.files[i].name = KeyOrder[1]}

\* the S3 metadata archives list every file with one mapping: a storage
\* document grows by such a file or by a field of its last file
GrowS3(doc) ==
    {AddMapping(AddFile(doc, k), [map |-> "m1", table |-> "t1"]) : k \in FileKeys}
    \cup (IF doc.files # <<>> THEN {AddField(doc, fld) : fld \in S3FieldPool} ELSE {})

RECURSIVE S3DocsUpTo(_)
S3DocsUpTo(n) ==
    IF n = 0 THEN {[files |-> <<>>]}
    ELSE LET prev == S3DocsUpTo(n - 1)
         IN prev \cup UNION {GrowS3(d) : d \in prev}

S3Docs == S3DocsUpTo(MaxS3Size)

(***************************************************************************)
(* ChamaS3ComparatorService                                                *)
(***************************************************************************)
\* {file_data['name']: file_data for file_data in files_list}
RECURSIVE FilesMap(_)
FilesMap(files) ==
    IF files = <<>> THEN <<>>
    ELSE LET n == Len(files)
         IN DictPut(FilesMap(SubSeq(files, 1, n - 1)), files[n].name, files[n])

\* the fields of all mappings of a file, in document order
RECURSIVE AllFields(_)
AllFields(mappings) ==
    IF mappings = <<>> THEN <<>>
    ELSE AllFields(SubSeq(mappings, 1, Len(mappings) - 1))
             \o mappings[Len(mappings)].fields

\* variant of Fields_put: a field already in the map is kept
Fields_put_first(fields_map, fld) ==
    IF DictHas(fields_map, normalize_column_name(fld.from_santander))
    THEN fields_map
    ELSE DictPut(fields_map, normalize_column_name(fld.from_santander),
                 [from_santander |-> fld.from_santander,
                  laborit |-> fld.laborit, type |-> fld.type])

\* s3_fields_map[normalized] = {...} / etl_fields_map[normalized] = {...}
Fields_put(fields_map, fld) ==
    DictPut(fields_map, normalize_column_name(fld.from_santander),
            [from_santander |-> fld.from_santander,
             laborit |-> fld.laborit, type |-> fld.type])

\* the s3_fields_map / etl_fields_map loop: normalized from_santander ->
\* {from_santander, laborit, type}; empty names are skipped, later fields
\* overwrite earlier ones
RECURSIVE FieldsMap(_)
FieldsMap(fields) ==
    IF fields = <<>> THEN <<>>
    ELSE LET n == Len(fields)
             init == FieldsMap(SubSeq(fields, 1, n - 1))
             fld == fields[n]
         IN IF fld.from_santander # <<>>
            THEN Fields_put(init, fld)
            ELSE init

\* sorted(all_file_names)
RECURSIVE SortKeys(_)
SortKeys(keys) ==
    IF keys = {} THEN <<>>
    ELSE LET k == CHOOSE x \in keys : \A y \in keys : KeyRank(x) <= KeyRank(y)
         IN <<k>> \o SortKeys(keys \ {k})

\* the order in which compare_metadatas visits the file names
Chama_file_order(s3_files_map, etl_files_map) ==
    SortKeys(DictKeys(s3_files_map) \cup DictKeys(etl_files_map))

\* a variant of Chama_only_in_etl that lists every ETL field
Chama_only_in_etl_all(s3_fields_map, etl_fields_map) ==
    [i \in DOMAIN etl_fields_map |-> etl_fields_map[i].v]

\* the fields_only_in_etl loop: the ETL entries whose key is not in S3
Chama_only_in_etl(s3_fields_map, etl_fields_map) ==
    LET onlyEtl == SelectIdx(etl_fields_map,
                       {i \in DOMAIN etl_fields_map :
                           ~DictHas(s3_fields_map, etl_fields_map[i].k)})
    IN [i \in DOMAIN onlyEtl |-> onlyEtl[i].v]

\* a variant of Chama_only_in_s3 that lists every S3 field
Chama_only_in_s3_all(s3_fields_map, etl_fields_map) ==
    [i \in DOMAIN s3_fields_map |-> s3_fields_map[i].v]

\* the else branch of the s3_fields_map loop: the S3 entries whose key is
\* not in ETL
Chama_only_in_s3(s3_fields_map, etl_fields_map) ==
    LET onlyS3 == SelectIdx(s3_fields_map,
                      {i \in DOMAIN s3_fields_map :
                          ~DictHas(etl_fields_map, s3_fields_map[i].k)})
    IN [i \in DOMAIN onlyS3 |-> onlyS3[i].v]

\* one comparison_item of compare_metadatas
Chama_comparison_item(file_name, s3_files_map, etl_files_map) ==
    LET hasS3 == DictHas(s3_files_map, file_name)
        hasEtl == DictHas(etl_files_map, file_name)
        s3_mappings == IF hasS3 THEN DictGet(s3_files_map, file_name).mappings ELSE <<>>
        etl_mappings == IF hasEtl THEN DictGet(etl_files_map, file_name).mappings ELSE <<>>
        s3_fields_map == FieldsMap(AllFields(s3_mappings))
        etl_fields_map == FieldsMap(AllFields(etl_mappings))
        bothIdx == {i \in DOMAIN s3_fields_map : DictHas(etl_fields_map, s3_fields_map[i].k)}
        both == SelectIdx(s3_fields_map, bothIdx)
        fields_in_both ==
            [i \in DOMAIN both |->
                [from_santander |-> both[i].v.from_santander,
                 s3_laborit |-> both[i].v.laborit,
                 s3_type |-> both[i].v.type,
                 etl_laborit |-> DictGet(etl_fields_map, both[i].k).laborit,
                 etl_type |-> DictGet(etl_fields_map, both[i].k).type]]
        fields_only_in_s3 == Chama_only_in_s3(s3_fields_map, etl_fields_map)
        fields_only_in_etl == Chama_only_in_etl(s3_fields_map, etl_fields_map)
    IN [file_name |-> file_name,
        has_s3_file |-> hasS3,
        has_etl_file |-> hasEtl,
        s3_mappings_count |-> Len(s3_mappings),
        etl_mappings_count |-> Len(etl_mappings),
        s3_fields_count |-> Len(s3_fields_map),
        etl_fields_count |-> Len(etl_fields_map),
        fields_in_both_count |-> Len(fields_in_both),
        fields_only_in_s3_count |-> Len(fields_only_in_s3),
        fields_only_in_etl_count |-> Len(fields_only_in_etl),
        fields_in_both |-> fields_in_both,
        fields_only_in_s3 |-> fields_only_in_s3,
        fields_only_in_etl |-> fields_only_in_etl]

\* number of fields of all mappings of a file
TotalFields(file) == Len(AllFields(file.mappings))

\* ChamaS3ComparatorService.compare_metadatas
ChamaS3_compare_metadatas(s3_metadata, etl_metadata) ==
    LET s3_files_list == FilesOf(s3_metadata)
        etl_files_list == FilesOf(etl_metadata)
        s3_files_map == FilesMap(s3_files_list)
        etl_files_map == FilesMap(etl_files_list)
        order == Chama_file_order(s3_files_map, etl_files_map)
        withoutIdx == {i \in DOMAIN etl_files_map :
                          ~DictHas(s3_files_map, etl_files_map[i].k)}
        without == SelectIdx(etl_files_map, withoutIdx)
        etl_without_s3 ==
            [i \in DOMAIN without |->
                [file_name |-> without[i].k,
                 mappings_count |-> Len(without[i].v.mappings),
                 fields_count |-> TotalFields(without[i].v)]]
    IN [s3_total_files |-> Len(s3_files_list),
        etl_total_files |-> Len(etl_files_list),
        comparisons |->
            [i \in DOMAIN order |->
                Chama_comparison_item(order[i], s3_files_map, etl_files_map)],
        etl_files_without_s3 |-> etl_without_s3,
        etl_files_without_s3_count |-> Len(etl_without_s3)]

\* ChamaS3ComparatorService.compare: skipped when either document has no files
ChamaS3Compare ==
    /\ project = "chama"
    /\ IF FilesOf(s3) = <<>> \/ FilesOf(etl) = <<>>
       THEN /\ s3cmp' = s3cmp
            /\ last' = [op |-> "chama_s3_compare", status |-> "skipped"]
       ELSE /\ s3cmp' = ChamaS3_compare_metadatas(s3, etl)
            /\ last' = [op |-> "chama_s3_compare", status |-> "written"]
    /\ UNCHANGED <<etl, s3, sys, syscmp, cons, ctVars, ptVars, project, normVars, pubVars, pipeVars>>

(***************************************************************************)
(* ChamaFromSystemService                                                  *)
(***************************************************************************)
\* {} : what dict.get(key, {}) returns for a missing key
EmptyDict == [empty |-> TRUE]

\* the default of system_data.get('colunas_nao_utilizadas', {})
NoUnusedColumns == [kind |-> "dict", items |-> <<>>]

\* tables of the usage document; '' is an empty table key
SysTables == {"t1", ""}

\* values of the unused-column encodings
UnusedNamePool == {<<"B", " ">>, <<>>, NoneVal}

\* display names of the dict encoding, by position
DisplayName(i) == <<"d", i>>

RECURSIVE SeqsUpTo(_, _)
SeqsUpTo(S, n) ==
    IF n = 0 THEN {<<>>}
    ELSE LET prev == SeqsUpTo(S, n - 1)
         IN prev \cup {Append(s, x) : s \in {t \in prev : Len(t) = n - 1}, x \in S}

\* dict {display_name: internal_name} with the values of the list L
DictOfList(L) ==
    [kind |-> "dict",
     items |-> [i \in DOMAIN L |-> [k |-> DisplayName(i), v |-> L[i]]]]

ListEncoding(L) == [kind |-> "list", items |-> L]

\* the values colunas_nao_utilizadas takes: a flat list, a dict, or a value
\* of another type
UnusedEncodings ==
    {ListEncoding(L) : L \in SeqsUpTo(UnusedNamePool, MaxUnused)}
    \cup {DictOfList(L) : L \in SeqsUpTo(UnusedNamePool, MaxUnused)}
    \cup {[kind |-> "other", items |-> <<>>]}

SysItems ==
    {[tabela |-> t, colunas_nao_utilizadas |-> e] :
        t \in SysTables \ {""}, e \in UnusedEncodings}
    \cup {[tabela |-> "", colunas_nao_utilizadas |-> NoUnusedColumns]}

\* chama_system.json : a list of usage records (the JSON array is items)
SysDocs == {[items |-> s] : s \in SeqsUpTo(SysItems, MaxSysTables)}

\* the usage records of the document, [] when the file does not exist
ItemsOf(disk) == IF disk = Absent THEN <<>> ELSE disk.items

\* ChamaFromSystemService._load_system_metadata: table name -> usage record,
\* read from the file at system_metadata_path; records with an empty table
\* are dropped
RECURSIVE SystemMapOf(_)
SystemMapOf(items) ==
    IF items = <<>> THEN <<>>
    ELSE LET n == Len(items)
             init == SystemMapOf(SubSeq(items, 1, n - 1))
         IN IF items[n].tabela # ""
            THEN DictPut(init, items[n].tabela, items[n])
            ELSE init

load_system_metadata(disk) == SystemMapOf(ItemsOf(disk))

\* system_map.get(table_name, {})
SystemDataOf(system_map, table_name) ==
    IF DictHas(system_map, table_name) THEN DictGet(system_map, table_name)
    ELSE EmptyDict

\* the values of the dict encoding that are not None, normalized
DictUnusedSet(items) ==
    {FromSystem_normalize_name(items[i].v) :
        i \in {j \in DOMAIN items : items[j].v # NoneVal}}

\* a variant of ListUnusedSet that keeps the list entries as written
ListUnusedSet_raw(items) ==
    {items[i] : i \in {j \in DOMAIN items : items[j] # NoneVal}}

\* the entries of the list encoding that are not None, normalized
ListUnusedSet(items) ==
    {FromSystem_normalize_name(items[i]) :
        i \in {j \in DOMAIN items : items[j] # NoneVal}}

\* ChamaFromSystemService._get_unused_columns (the unused_columns_set)
get_unused_columns(system_data) ==
    LET unused_columns_dict ==
            IF system_data = EmptyDict THEN NoUnusedColumns
            ELSE system_data.colunas_nao_utilizadas
    IN CASE unused_columns_dict.kind = "dict" -> DictUnusedSet(unused_columns_dict.items)
         [] unused_columns_dict.kind = "list" -> ListUnusedSet(unused_columns_dict.items)
         [] OTHER -> {}

(***************************************************************************)
(* ChamaETLSystemComparatorService                                         *)
(***************************************************************************)
\* a variant of Chama_is_used that tests the internal name as written
Chama_is_used_raw(field, unused_columns_set) ==
    ~(field.laborit \in unused_columns_set)

\* is_used of one field: not in the unused set
Chama_is_used(field, unused_columns_set) ==
    ~(Sys_normalize_column_name(field.laborit) \in unused_columns_set)

\* a variant of Chama_usage_counts that counts every field as unused
Chama_usage_counts_all_unused(flags) ==
    [used_count |-> Cardinality({i \in DOMAIN flags : flags[i]}),
     unused_count |-> Len(flags)]

\* the used_count / unused_count counters of the field loop
Chama_usage_counts(flags) ==
    [used_count |-> Cardinality({i \in DOMAIN flags : flags[i]}),
     unused_count |-> Cardinality({i \in DOMAIN flags : ~flags[i]})]

\* one mapping_comparison of compare_metadatas
Chama_mapping_comparison(mapping, system_map) ==
    LET system_data == SystemDataOf(system_map, mapping.table)
        unused_columns_set == get_unused_columns(system_data)
        fields == mapping.fields
        fields_with_usage ==
            [i \in DOMAIN fields |->
                [from_santander |-> fields[i].from_santander,
                 laborit |-> fields[i].laborit,
                 type |-> fields[i].type,
                 is_used_in_system |-> Chama_is_used(fields[i], unused_columns_set)]]
        counts == Chama_usage_counts(
                      [i \in DOMAIN fields |-> fields_with_usage[i].is_used_in_system])
    IN [map |-> mapping.map,
        table |-> mapping.table,
        has_system_data |-> system_data # EmptyDict,
        fields |-> fields_with_usage,
        statistics |->
            [total_fields |-> Len(fields_with_usage),
             used_count |-> counts.used_count,
             unused_count |-> counts.unused_count],
        system_unused_columns_count |-> Cardinality(unused_columns_set)]

\* the (file, mapping) pairs of the ETL document, in document order
RECURSIVE MappingRefs(_)
MappingRefs(files) ==
    IF files = <<>> THEN <<>>
    ELSE LET n == Len(files)
         IN MappingRefs(SubSeq(files, 1, n - 1))
            \o [j \in DOMAIN files[n].mappings |->
                    [file_name |-> files[n].name, mapping |-> files[n].mappings[j]]]

\* variant of Chama_without_system: a table without unused columns is
\* listed too
Chama_without_system_or_all_used(system_map, table_name) ==
    \/ ~DictHas(system_map, table_name)
    \/ get_unused_columns(SystemDataOf(system_map, table_name)) = {}

\* if table_name not in system_map
Chama_without_system(system_map, table_name) == ~DictHas(system_map, table_name)

\* ChamaETLSystemComparatorService.compare_metadatas; disk is the file at
\* system_metadata_path, which the method reads again by itself
ChamaSys_compare_metadatas(etl_metadata, system_metadata, disk) ==
    LET etl_files_list == FilesOf(etl_metadata)
        system_map == load_system_metadata(disk)
        refs == MappingRefs(etl_files_list)
        withoutIdx == {i \in DOMAIN refs :
                          Chama_without_system(system_map, refs[i].mapping.table)}
        without == SelectIdx(refs, withoutIdx)
        etl_without_system ==
            [i \in DOMAIN without |->
                [file_name |-> without[i].file_name,
                 map |-> without[i].mapping.map,
                 table |-> without[i].mapping.table,
                 fields_count |-> Len(without[i].mapping.fields)]]
    IN [etl_total_files |-> Len(etl_files_list),
        system_total_tables |-> Len(ItemsOf(system_metadata)),
        files |->
            [i \in DOMAIN etl_files_list |->
                [file_name |-> etl_files_list[i].name,
                 mappings |->
                    [j \in DOMAIN etl_files_list[i].mappings |->
                        Chama_mapping_comparison(etl_files_list[i].mappings[j], system_map)]]],
        etl_without_system |-> etl_without_system,
        etl_without_system_count |-> Len(etl_without_system)]

\* ChamaETLSystemComparatorService.compare: skipped when the ETL document has
\* no files or the usage document is missing or empty
ChamaSysCompare ==
    /\ project = "chama"
    /\ IF FilesOf(etl) = <<>> \/ ItemsOf(sys) = <<>>
       THEN /\ syscmp' = syscmp
            /\ last' = [op |-> "chama_sys_compare", status |-> "skipped"]
       ELSE /\ syscmp' = ChamaSys_compare_metadatas(etl, sys, sys)
            /\ last' = [op |-> "chama_sys_compare", status |-> "written"]
    /\ UNCHANGED <<etl, s3, sys, s3cmp, cons, ctVars, ptVars, project, normVars, pubVars, pipeVars>>

(***************************************************************************)
(* Consultor Turbo documents                                               *)
(***************************************************************************)
\* (config_name, final_table) of the ETL configurations
CtConfigIds ==
    {[config_name |-> "f1", final_table |-> "t1"],
     [config_name |-> "f2", final_table |-> "t2"]}

\* FieldsMapper.Columns entries of the ETL configurations
CtColumnPool ==
    { [NameFile |-> <<"b">>, NameTemp |-> <<"A", "b">>,
       TypeFile |-> "int", TypeTemp |-> "str", Key |-> TRUE],
      [NameFile |-> <<" ", "B">>, NameTemp |-> <<"A", "B", " ">>,
       TypeFile |-> "str", TypeTemp |-> "str", Key |-> FALSE],
      [NameFile |-> <<"a">>, NameTemp |-> <<"b">>,
       TypeFile |-> "int", TypeTemp |-> "int", Key |-> FALSE],
      [NameFile |-> <<>>, NameTemp |-> <<>>,
       TypeFile |-> "", TypeTemp |-> "", Key |-> FALSE] }

\* header cells of the S3 CSV files
CtHeaderPool == {<<"a", "B">>, <<" ", "a", "b">>, <<"a">>, <<" ">>}

\* configs come from sorted(directory.glob("*.json")): config names ascend
CtGrow(doc) ==
    {[configs |-> Append(doc.configs,
                    [config_name |-> id.config_name, final_table |-> id.final_table,
                     columns |-> <<>>])] :
        id \in {x \in CtConfigIds :
                   \A i \in DOMAIN doc.configs :
                       KeyRank(doc.configs[i].config_name) < KeyRank(x.config_name)}}
    \cup (IF doc.configs # <<>>
          THEN {[configs |-> [doc.configs EXCEPT ![Len(doc.configs)].columns =
                                  Append(@, c)]] : c \in CtColumnPool}
          ELSE {})

RECURSIVE CtDocsUpTo(_)
CtDocsUpTo(n) ==
    IF n = 0 THEN {[configs |-> <<>>]}
    ELSE LET prev == CtDocsUpTo(n - 1)
         IN prev \cup UNION {CtGrow(d) : d \in prev}

CtEtlDocs == CtDocsUpTo(MaxEtlSize)

\* the ETL documents with at most one configuration
CtEtlDocsOneConfig ==
    {d \in CtEtlDocs :
        Len(d.configs) <= 1
        /\ \A i \in DOMAIN d.configs : d.configs[i].config_name = KeyOrder[1]}

\* etl_metadata.get('configs', [])
ConfigsOf(doc) == IF doc = Absent THEN <<>> ELSE doc.configs

\* ConsultorTurboS3MetadataService.get_columns_from_s3_file
\* [col.strip() for col in header if col.strip()]
RECURSIVE get_columns_from_s3_file(_)
get_columns_from_s3_file(header) ==
    IF header = <<>> THEN <<>>
    ELSE LET n == Len(header)
             init == get_columns_from_s3_file(SubSeq(header, 1, n - 1))
         IN IF Strip(header[n]) # <<>> THEN Append(init, Strip(header[n])) ELSE init

\* ConsultorTurboS3MetadataService.normalize_column_name
CtS3Meta_normalize_column_name(col_name) ==
    IF col_name = NoneVal THEN Raises ELSE Strip(Lower(col_name))

\* the file_metadata that generate_from_santander_metadata builds for one file
Ct_file_metadata(base_name, header) ==
    LET columns == get_columns_from_s3_file(header)
    IN [file_name |-> base_name,
        base_name |-> base_name,
        columns_count |-> Len(columns),
        columns |-> [i \in DOMAIN columns |->
                        [name |-> columns[i],
                         normalized_name |-> CtS3Meta_normalize_column_name(columns[i])]]]

\* the CSV files under the S3 path: base name -> header ; base names are
\* unique (s3_files is a dict)
CtGrowCsv(csv) ==
    {Append(csv, [base_name |-> k, header |-> <<>>]) :
        k \in {x \in FileKeys : \A i \in DOMAIN csv : csv[i].base_name # x}}
    \cup (IF csv # <<>>
          THEN {[csv EXCEPT ![Len(csv)].header = Append(@, h)] : h \in CtHeaderPool}
          ELSE {})

RECURSIVE CtCsvUpTo(_)
CtCsvUpTo(n) ==
    IF n = 0 THEN {<<>>}
    ELSE LET prev == CtCsvUpTo(n - 1)
         IN prev \cup UNION {CtGrowCsv(c) : c \in prev}

\* ConsultorTurboS3MetadataService.generate_from_santander_metadata
generate_from_santander_metadata(csv) ==
    [files |-> [i \in DOMAIN csv |-> Ct_file_metadata(csv[i].base_name, csv[i].header)]]

CtS3Docs == {generate_from_santander_metadata(c) : c \in CtCsvUpTo(MaxS3Size)}

(***************************************************************************)
(* ConsultorTurboS3ComparatorService                                       *)
(***************************************************************************)
\* ConsultorTurboS3ComparatorService.normalize_column_name
Ct_normalize_column_name(col_name) ==
    IF col_name = NoneVal THEN Raises ELSE Strip(Lower(col_name))

\* {file['base_name']: file for file in s3_metadata.get('files', [])}
RECURSIVE CtS3FilesMap(_)
CtS3FilesMap(files) ==
    IF files = <<>> THEN <<>>
    ELSE LET n == Len(files)
         IN DictPut(CtS3FilesMap(SubSeq(files, 1, n - 1)), files[n].base_name, files[n])

\* {config['config_name']: config for config in etl_metadata.get('configs', [])}
RECURSIVE CtConfigsMap(_)
CtConfigsMap(configs) ==
    IF configs = <<>> THEN <<>>
    ELSE LET n == Len(configs)
         IN DictPut(CtConfigsMap(SubSeq(configs, 1, n - 1)),
                    configs[n].config_name, configs[n])

\* {col['normalized_name']: col['name'] for col in columns}
RECURSIVE CtS3Columns(_)
CtS3Columns(columns) ==
    IF columns = <<>> THEN <<>>
    ELSE LET n == Len(columns)
         IN DictPut(CtS3Columns(SubSeq(columns, 1, n - 1)),
                    columns[n].normalized_name, columns[n].name)

\* the etl_columns loop: normalized NameTemp -> column data, empty NameTemp
\* skipped
RECURSIVE CtEtlColumns(_)
CtEtlColumns(columns) ==
    IF columns = <<>> THEN <<>>
    ELSE LET n == Len(columns)
             init == CtEtlColumns(SubSeq(columns, 1, n - 1))
             col == columns[n]
         IN IF col.NameTemp # <<>>
            THEN DictPut(init, Ct_normalize_column_name(col.NameTemp),
                         [name_file |-> col.NameFile, name_temp |-> col.NameTemp,
                          type_file |-> col.TypeFile, type_temp |-> col.TypeTemp,
                          is_key |-> col.Key])
            ELSE init

\* the keys for which compare_metadatas emits a comparison item, in order
Ct_file_order(s3_files, etl_configs) == [i \in DOMAIN s3_files |-> s3_files[i].k]

\* one comparison_item of compare_metadatas
Ct_comparison_item(base_name, s3_files, etl_configs) ==
    LET s3_file_data == DictGet(s3_files, base_name)
        hasEtl == DictHas(etl_configs, base_name)
        etl_cols == IF hasEtl THEN DictGet(etl_configs, base_name).columns ELSE <<>>
        s3_columns == CtS3Columns(s3_file_data.columns)
        etl_columns == CtEtlColumns(etl_cols)
        bothIdx == {i \in DOMAIN s3_columns : DictHas(etl_columns, s3_columns[i].k)}
        both == SelectIdx(s3_columns, bothIdx)
        onlyS3 == SelectIdx(s3_columns, DOMAIN s3_columns \ bothIdx)
        onlyEtl == SelectIdx(etl_columns,
                       {i \in DOMAIN etl_columns : ~DictHas(s3_columns, etl_columns[i].k)})
        columns_in_both ==
            [i \in DOMAIN both |->
                [s3_name |-> both[i].v,
                 etl_name_temp |-> DictGet(etl_columns, both[i].k).name_temp,
                 etl_name_file |-> DictGet(etl_columns, both[i].k).name_file,
                 type_file |-> DictGet(etl_columns, both[i].k).type_file,
                 type_temp |-> DictGet(etl_columns, both[i].k).type_temp,
                 is_key |-> DictGet(etl_columns, both[i].k).is_key]]
        columns_only_in_s3 == [i \in DOMAIN onlyS3 |-> onlyS3[i].v]
        columns_only_in_etl == [i \in DOMAIN onlyEtl |-> onlyEtl[i].v]
    IN [base_name |-> base_name,
        s3_file |-> s3_file_data.file_name,
        has_etl_config |-> hasEtl,
        etl_config_name |-> IF hasEtl THEN base_name ELSE "",
        etl_final_table |-> IF hasEtl THEN DictGet(etl_configs, base_name).final_table ELSE "",
        s3_columns_count |-> s3_file_data.columns_count,
        etl_columns_count |-> Len(etl_cols),
        columns_in_both_count |-> Len(columns_in_both),
        columns_only_in_s3_count |-> Len(columns_only_in_s3),
        columns_only_in_etl_count |-> Len(columns_only_in_etl),
        columns_in_both |-> columns_in_both,
        columns_only_in_s3 |-> columns_only_in_s3,
        columns_only_in_etl |-> columns_only_in_etl]

\* ConsultorTurboS3ComparatorService.compare_metadatas
CtS3_compare_metadatas(s3_metadata, etl_metadata) ==
    LET s3_files == CtS3FilesMap(FilesOf(s3_metadata))
        etl_configs == CtConfigsMap(ConfigsOf(etl_metadata))
        order == Ct_file_order(s3_files, etl_configs)
        without == SelectIdx(etl_configs,
                       {i \in DOMAIN etl_configs : ~DictHas(s3_files, etl_configs[i].k)})
        etl_without_s3 ==
            [i \in DOMAIN without |->
                [config_name |-> without[i].k,
                 final_table |-> without[i].v.final_table,
                 columns_count |-> Len(without[i].v.columns)]]
    IN [comparisons |->
            [i \in DOMAIN order |-> Ct_comparison_item(order[i], s3_files, etl_configs)],
        etl_configs_without_s3 |-> etl_without_s3,
        etl_configs_without_s3_count |-> Len(etl_without_s3)]

\* ConsultorTurboS3ComparatorService.compare
CtS3Compare ==
    /\ project = "consultor_turbo"
    /\ IF FilesOf(ctS3) = <<>> \/ ConfigsOf(ctEtl) = <<>>
       THEN /\ ctS3cmp' = ctS3cmp
            /\ last' = [op |-> "ct_s3_compare", status |-> "skipped"]
       ELSE /\ ctS3cmp' = CtS3_compare_metadatas(ctS3, ctEtl)
            /\ last' = [op |-> "ct_s3_compare", status |-> "written"]
    /\ UNCHANGED <<chamaVars, ctEtl, ctS3, ctSys, ctSyscmp, ptVars, project, normVars, pubVars, pipeVars>>

(***************************************************************************)
(* ConsultorTurboFromSystemService and                                     *)
(* ConsultorTurboETLSystemComparatorService                                *)
(***************************************************************************)
\* ConsultorTurboFromSystemService._load_system_metadata
Ct_load_system_metadata(disk) == SystemMapOf(ItemsOf(disk))

\* ConsultorTurboFromSystemService._get_unused_columns: dict values that are
\* not null, list entries that are neither null nor empty, normalized
Ct_get_unused_columns(system_data) ==
    LET enc == IF system_data = EmptyDict THEN NoUnusedColumns
               ELSE system_data.colunas_nao_utilizadas
    IN CASE enc.kind = "dict" ->
              {Strip(Lower(enc.items[i].v)) :
                  i \in {j \in DOMAIN enc.items : enc.items[j].v # NoneVal}}
         [] enc.kind = "list" ->
              {Strip(Lower(enc.items[i])) :
                  i \in {j \in DOMAIN enc.items :
                            enc.items[j] # NoneVal /\ enc.items[j] # <<>>}}
         [] OTHER -> {}

\* ConsultorTurboETLSystemComparatorService.normalize_column_name
CtSys_normalize_column_name(col_name) ==
    IF col_name = <<>> \/ col_name = NoneVal THEN <<>> ELSE Strip(Lower(col_name))

\* is_unused of one column
Ct_is_unused(col, unused_columns_set) ==
    CtSys_normalize_column_name(col.NameFile) \in unused_columns_set

\* one comparison_item of the usage comparison
CtSys_comparison_item(config_name, etl_config, system_map) ==
    LET system_data == SystemDataOf(system_map, etl_config.final_table)
        unused_columns_set == Ct_get_unused_columns(system_data)
        cols == etl_config.columns
        etl_columns ==
            [i \in DOMAIN cols |->
                [name_file |-> cols[i].NameFile,
                 name_temp |-> cols[i].NameTemp,
                 type_file |-> cols[i].TypeFile,
                 type_temp |-> cols[i].TypeTemp,
                 is_key |-> cols[i].Key,
                 is_used_in_system |-> ~Ct_is_unused(cols[i], unused_columns_set)]]
        unusedIdx == {i \in DOMAIN cols : Ct_is_unused(cols[i], unused_columns_set)}
        columns_unused_in_system == SelectIdx(etl_columns, unusedIdx)
        columns_used_in_system == SelectIdx(etl_columns, DOMAIN cols \ unusedIdx)
    IN [config_name |-> config_name,
        final_table |-> etl_config.final_table,
        has_system_data |-> system_data # EmptyDict,
        etl_columns_count |-> Len(etl_columns),
        columns_unused_in_system_count |-> Len(columns_unused_in_system),
        columns_used_in_system_count |-> Len(columns_used_in_system),
        system_unused_columns_count |-> Cardinality(unused_columns_set),
        columns_unused_in_system |-> columns_unused_in_system,
        columns_used_in_system |-> columns_used_in_system]

\* ConsultorTurboETLSystemComparatorService.compare_metadatas
CtSys_compare_metadatas(etl_metadata, system_metadata, disk) ==
    LET system_map == Ct_load_system_metadata(disk)
        etl_configs == CtConfigsMap(ConfigsOf(etl_metadata))
        without == SelectIdx(etl_configs,
                       {i \in DOMAIN etl_configs :
                           ~DictHas(system_map, etl_configs[i].v.final_table)})
        etl_without_system ==
            [i \in DOMAIN without |->
                [config_name |-> without[i].k,
                 final_table |-> without[i].v.final_table,
                 columns_count |-> Len(without[i].v.columns)]]
    IN [comparisons |->
            [i \in DOMAIN etl_configs |->
                CtSys_comparison_item(etl_configs[i].k, etl_configs[i].v, system_map)],
        etl_configs_without_system |-> etl_without_system,
        etl_configs_without_system_count |-> Len(etl_without_system)]

\* ConsultorTurboETLSystemComparatorService.compare
CtSysCompare ==
    /\ project = "consultor_turbo"
    /\ IF ConfigsOf(ctEtl) = <<>> \/ ItemsOf(ctSys) = <<>>
       THEN /\ ctSyscmp' = ctSyscmp
            /\ last' = [op |-> "ct_sys_compare", status |-> "skipped"]
       ELSE /\ ctSyscmp' = CtSys_compare_metadatas(ctEtl, ctSys, ctSys)
            /\ last' = [op |-> "ct_sys_compare", status |-> "written"]
    /\ UNCHANGED <<chamaVars, ctEtl, ctS3, ctSys, ctS3cmp, ptVars, project, normVars, pubVars, pipeVars>>

(***************************************************************************)
(* ChamaConsolidatedMetadataService                                        *)
(***************************************************************************)
\* dict.get(key, default) on a record that may be {}
GetOr(rec, key, default) == IF rec = EmptyDict THEN default ELSE rec[key]

\* a variant of check_field_in_s3 that compares the names as written
check_field_in_s3_raw(from_santander, s3_comparison) ==
    IF s3_comparison = EmptyDict THEN FALSE
    ELSE \/ \E i \in DOMAIN s3_comparison.fields_in_both :
              s3_comparison.fields_in_both[i].from_santander = from_santander
         \/ \E i \in DOMAIN s3_comparison.fields_only_in_s3 :
              s3_comparison.fields_only_in_s3[i].from_santander = from_santander

\* ChamaConsolidatedMetadataService._check_field_in_s3
check_field_in_s3(from_santander, s3_comparison) ==
    IF s3_comparison = EmptyDict THEN FALSE
    ELSE LET normalized_from_santander == Cons_normalize_name(from_santander)
         IN \/ \E i \in DOMAIN s3_comparison.fields_in_both :
                  Cons_normalize_name(s3_comparison.fields_in_both[i].from_santander)
                      = normalized_from_santander
            \/ \E i \in DOMAIN s3_comparison.fields_only_in_s3 :
                  Cons_normalize_name(s3_comparison.fields_only_in_s3[i].from_santander)
                      = normalized_from_santander

\* s3_comparison_map: file_name -> comparison record
RECURSIVE S3ComparisonMap(_)
S3ComparisonMap(comparisons) ==
    IF comparisons = <<>> THEN <<>>
    ELSE LET n == Len(comparisons)
         IN DictPut(S3ComparisonMap(SubSeq(comparisons, 1, n - 1)),
                    comparisons[n].file_name, comparisons[n])

\* mapping_map: map name -> mapping record of the usage comparison
RECURSIVE MappingMap(_)
MappingMap(mappings) ==
    IF mappings = <<>> THEN <<>>
    ELSE LET n == Len(mappings)
         IN DictPut(MappingMap(SubSeq(mappings, 1, n - 1)), mappings[n].map, mappings[n])

\* system_comparison_map: file_name -> mapping_map
RECURSIVE SystemComparisonMap(_)
SystemComparisonMap(files) ==
    IF files = <<>> THEN <<>>
    ELSE LET n == Len(files)
         IN DictPut(SystemComparisonMap(SubSeq(files, 1, n - 1)),
                    files[n].file_name, MappingMap(files[n].mappings))

\* system_fields_map: normalized from_santander -> field of the usage
\* comparison
RECURSIVE SystemFieldsMap(_)
SystemFieldsMap(fields) ==
    IF fields = <<>> THEN <<>>
    ELSE LET n == Len(fields)
         IN DictPut(SystemFieldsMap(SubSeq(fields, 1, n - 1)),
                    Cons_normalize_name(fields[n].from_santander), fields[n])

\* dict.get(key, {}) on a dict
DictGetOr(d, k, default) == IF DictHas(d, k) THEN DictGet(d, k) ELSE default

\* a variant of Chama_is_used_in_system whose default is true
Chama_is_used_in_system_or_true(system_field) ==
    GetOr(system_field, "is_used_in_system", TRUE)

\* system_field.get('is_used_in_system', False)
Chama_is_used_in_system(system_field) ==
    GetOr(system_field, "is_used_in_system", FALSE)

\* a variant of Chama_consolidated_fields that leaves out the fields that
\* are not in S3
Chama_consolidated_fields_in_s3(etl_fields, s3_comparison, system_mapping_comp) ==
    LET kept == SelectIdx(etl_fields,
                    {i \in DOMAIN etl_fields :
                        check_field_in_s3(etl_fields[i].from_santander, s3_comparison)})
    IN [i \in DOMAIN kept |->
            [from_santander |-> kept[i].from_santander,
             laborit |-> kept[i].laborit,
             type |-> kept[i].type,
             exists_in_s3 |-> TRUE,
             is_used_in_system |-> FALSE]]

\* the consolidated_fields of one mapping
Chama_consolidated_fields(etl_fields, s3_comparison, system_mapping_comp) ==
    LET system_fields_map ==
            SystemFieldsMap(IF system_mapping_comp = EmptyDict THEN <<>>
                            ELSE system_mapping_comp.fields)
    IN [i \in DOMAIN etl_fields |->
            LET system_field ==
                    DictGetOr(system_fields_map,
                              Cons_normalize_name(etl_fields[i].from_santander), EmptyDict)
            IN [from_santander |-> etl_fields[i].from_santander,
                laborit |-> etl_fields[i].laborit,
                type |-> etl_fields[i].type,
                exists_in_s3 |->
                    check_field_in_s3(etl_fields[i].from_santander, s3_comparison),
                is_used_in_system |-> Chama_is_used_in_system(system_field)]]

\* bool(s3_file_data), s3_file_data taken from from_santander_metadata.json
Chama_has_s3_file(s3_file_data) == s3_file_data # EmptyDict

\* a variant of Chama_statistics that counts the fields found in S3 as the
\* fields used in the system
Chama_statistics_s3_as_used(consolidated_fields) ==
    LET total_fields == Len(consolidated_fields)
        exists_in_s3_count ==
            Cardinality({i \in DOMAIN consolidated_fields :
                            consolidated_fields[i].exists_in_s3})
    IN [total_fields |-> total_fields,
        exists_in_s3_count |-> exists_in_s3_count,
        used_in_system_count |-> exists_in_s3_count,
        unused_in_system_count |-> total_fields - exists_in_s3_count]

\* the statistics of one consolidated mapping
Chama_statistics(consolidated_fields) ==
    LET total_fields == Len(consolidated_fields)
        used_in_system_count ==
            Cardinality({i \in DOMAIN consolidated_fields :
                            consolidated_fields[i].is_used_in_system})
        exists_in_s3_count ==
            Cardinality({i \in DOMAIN consolidated_fields :
                            consolidated_fields[i].exists_in_s3})
    IN [total_fields |-> total_fields,
        exists_in_s3_count |-> exists_in_s3_count,
        used_in_system_count |-> used_in_system_count,
        unused_in_system_count |-> total_fields - used_in_system_count]

\* one consolidated_mapping
Chama_consolidated_mapping(etl_mapping, s3_file_data, s3_comparison, system_file_comparison) ==
    LET system_mapping_comp ==
            DictGetOr(system_file_comparison, etl_mapping.map, EmptyDict)
        consolidated_fields ==
            Chama_consolidated_fields(etl_mapping.fields, s3_comparison, system_mapping_comp)
    IN [map |-> etl_mapping.map,
        table |-> etl_mapping.table,
        fields |-> consolidated_fields,
        statistics |-> Chama_statistics(consolidated_fields),
        s3_comparison |->
            [has_s3_file |-> Chama_has_s3_file(s3_file_data),
             fields_in_both_count |-> GetOr(s3_comparison, "fields_in_both_count", 0),
             fields_only_in_s3_count |-> GetOr(s3_comparison, "fields_only_in_s3_count", 0),
             fields_only_in_etl_count |-> GetOr(s3_comparison, "fields_only_in_etl_count", 0)],
        system_comparison |->
            [has_system_data |-> GetOr(system_mapping_comp, "has_system_data", FALSE),
             system_unused_columns_count |->
                 GetOr(system_mapping_comp, "system_unused_columns_count", 0)]]

\* the consolidated document that consolidate() builds from the documents
\* it finds on disk
Chama_consolidated(etl_metadata, s3_metadata, s3_comparison_data, system_comparison_data) ==
    LET s3_comparison_map ==
            S3ComparisonMap(IF s3_comparison_data = Absent THEN <<>>
                            ELSE s3_comparison_data.comparisons)
        system_comparison_map == SystemComparisonMap(FilesOf(system_comparison_data))
        s3_files_map == FilesMap(FilesOf(s3_metadata))
        etl_files == FilesOf(etl_metadata)
    IN [files |->
            [i \in DOMAIN etl_files |->
                LET file_name == etl_files[i].name
                    s3_file_data == DictGetOr(s3_files_map, file_name, EmptyDict)
                    s3_comparison == DictGetOr(s3_comparison_map, file_name, EmptyDict)
                    system_file_comparison ==
                        DictGetOr(system_comparison_map, file_name, <<>>)
                IN [name |-> file_name,
                    mappings |->
                        [j \in DOMAIN etl_files[i].mappings |->
                            Chama_consolidated_mapping(etl_files[i].mappings[j],
                                s3_file_data, s3_comparison, system_file_comparison)]]]]

\* ChamaConsolidatedMetadataService.consolidate: returns before writing when
\* the ETL metadata file does not exist
ChamaConsolidate ==
    /\ project = "chama"
    /\ IF etl = Absent
       THEN /\ cons' = cons
            /\ last' = [op |-> "chama_consolidate", status |-> "aborted"]
       ELSE /\ cons' = Chama_consolidated(etl, s3, s3cmp, syscmp)
            /\ last' = [op |-> "chama_consolidate", status |-> "written"]
    /\ UNCHANGED <<etl, s3, sys, s3cmp, syscmp, ctVars, ptVars, project, normVars, pubVars, pipeVars>>

(***************************************************************************)
(* PortalTurboConsolidatedMetadataService                                  *)
(***************************************************************************)
\* None in the place of a type string
NoneStr == "None"

\* PortalTurboConsolidatedMetadataService._empty_to_none, on a name
empty_to_none(value) == IF value = <<>> \/ value = NoneVal THEN NoneVal ELSE value

\* PortalTurboConsolidatedMetadataService._empty_to_none, on a type string
empty_to_none_str(value) == IF value = "" \/ value = NoneStr THEN NoneStr ELSE value

\* name_temp or ''
OrEmpty(name) == IF name = NoneVal THEN <<>> ELSE name

\* the entries of s3_maps_input.json: at most one file, its map name empty
\* or the name of a configuration
PtMapNames == {"f1", ""}

RECURSIVE PtHeadersUpTo(_)
PtHeadersUpTo(n) ==
    IF n = 0 THEN {<<>>}
    ELSE LET prev == PtHeadersUpTo(n - 1)
         IN prev \cup {Append(h, c) : h \in prev, c \in CtHeaderPool}

PtS3Inputs ==
    {<<>>} \cup {<<[map |-> m, columns |-> h]>> :
                    m \in PtMapNames, h \in PtHeadersUpTo(MaxS3Size - 1)}

\* PortalTurboS3MetadataService.normalize_column_name
PtS3Meta_normalize_column_name(col_name) ==
    IF col_name = <<>> \/ col_name = NoneVal THEN <<>> ELSE Strip(Lower(col_name))

\* processed_columns: the stripped names that are not empty
RECURSIVE Pt_processed_columns(_)
Pt_processed_columns(columns_data) ==
    IF columns_data = <<>> THEN <<>>
    ELSE LET n == Len(columns_data)
             init == Pt_processed_columns(SubSeq(columns_data, 1, n - 1))
             col_name == Strip(columns_data[n])
         IN IF col_name # <<>>
            THEN Append(init, [name |-> col_name,
                               normalized_name |-> PtS3Meta_normalize_column_name(col_name)])
            ELSE init

\* PortalTurboS3MetadataService.generate_from_santander_metadata
Pt_generate_from_santander_metadata(files_data) ==
    [files |->
        [i \in DOMAIN files_data |->
            LET processed_columns == Pt_processed_columns(files_data[i].columns)
            IN [file_name |-> files_data[i].map,
                mapa |-> files_data[i].map,
                columns_count |-> Len(processed_columns),
                columns |-> processed_columns]]]

PtS3Docs == {Pt_generate_from_santander_metadata(f) : f \in PtS3Inputs}

\* the Portal Turbo ETL documents: configs with their FieldsMapper columns
PtEtlDocs == CtDocsUpTo(MaxEtlSize - 1)

\* the s3_vs_etl document that consolidate() reads: no comparison, or one
\* comparison with the counts consolidate() copies
PtS3ComparisonDocs ==
    {[comparisons |-> <<>>]} \cup
    {[comparisons |->
        <<[etl_config_name |-> n,
           columns_in_both_count |-> 1,
           columns_only_in_s3_count |-> 0,
           columns_only_in_etl_count |-> 1]>>] : n \in {"f1", ""}}

\* the etl_vs_system document that consolidate() reads: one comparison with
\* its used and unused column lists
PtSystemComparisonDocs ==
    {[comparisons |->
        <<[config_name |-> "f1",
           has_system_data |-> TRUE,
           columns_used_in_system |->
               <<[name_file |-> <<"b">>, is_used_in_system |-> TRUE]>>,
           columns_unused_in_system |->
               <<[name_file |-> u, is_used_in_system |-> FALSE]>>,
           columns_used_in_system_count |-> 1,
           columns_unused_in_system_count |-> 1,
           system_unused_columns_count |-> 1]>>] : u \in {<<"a">>, <<"b">>}}

\* PortalTurboConsolidatedMetadataService._check_column_in_s3: the first S3
\* column of the file whose normalized name is the normalized NameTemp
check_column_in_s3(name_temp, s3_file_data) ==
    IF s3_file_data = EmptyDict \/ name_temp = <<>>
    THEN [exists_in_s3 |-> FALSE]
    ELSE LET hits == {i \in DOMAIN s3_file_data.columns :
                         Pt_normalize_name(s3_file_data.columns[i].name)
                             = Pt_normalize_name(name_temp)}
         IN IF hits = {} THEN [exists_in_s3 |-> FALSE]
            ELSE LET first == CHOOSE i \in hits : \A j \in hits : i <= j
                 IN [exists_in_s3 |-> TRUE,
                     s3_name |-> empty_to_none(s3_file_data.columns[first].name)]

\* s3_comparison_map: etl_config_name -> comparison, empty names left out
RECURSIVE PtS3ComparisonMap(_)
PtS3ComparisonMap(comparisons) ==
    IF comparisons = <<>> THEN <<>>
    ELSE LET n == Len(comparisons)
             init == PtS3ComparisonMap(SubSeq(comparisons, 1, n - 1))
         IN IF comparisons[n].etl_config_name # ""
            THEN DictPut(init, comparisons[n].etl_config_name, comparisons[n])
            ELSE init

\* system_comparison_map: config_name -> comparison
RECURSIVE PtSystemComparisonMap(_)
PtSystemComparisonMap(comparisons) ==
    IF comparisons = <<>> THEN <<>>
    ELSE LET n == Len(comparisons)
         IN DictPut(PtSystemComparisonMap(SubSeq(comparisons, 1, n - 1)),
                    comparisons[n].config_name, comparisons[n])

\* s3_files_map: mapa -> file of the S3 metadata, empty mapa left out
RECURSIVE PtS3FilesMap(_)
PtS3FilesMap(files) ==
    IF files = <<>> THEN <<>>
    ELSE LET n == Len(files)
             init == PtS3FilesMap(SubSeq(files, 1, n - 1))
         IN IF files[n].mapa # "" THEN DictPut(init, files[n].mapa, files[n]) ELSE init

\* system_column_map: name_file -> column, the used columns first and the
\* unused ones after them, empty names left out
RECURSIVE PtSystemColumnMap(_)
PtSystemColumnMap(cols) ==
    IF cols = <<>> THEN <<>>
    ELSE LET n == Len(cols)
             init == PtSystemColumnMap(SubSeq(cols, 1, n - 1))
         IN IF cols[n].name_file # <<>>
            THEN DictPut(init, cols[n].name_file, cols[n])
            ELSE init

\* comparisons of a comparison document that may be missing
ComparisonsOf(doc) == IF doc = Absent THEN <<>> ELSE doc.comparisons

\* columns_detail of one table
Pt_columns_detail(columns, s3_file_data, system_comparison) ==
    LET system_column_map ==
            PtSystemColumnMap(
                GetOr(system_comparison, "columns_used_in_system", <<>>)
                \o GetOr(system_comparison, "columns_unused_in_system", <<>>))
    IN [i \in DOMAIN columns |->
            LET name_temp == empty_to_none(columns[i].NameTemp)
                name_file == empty_to_none(columns[i].NameFile)
                system_col_data ==
                    DictGetOr(system_column_map, OrEmpty(name_file), EmptyDict)
            IN [from_santander |-> name_temp,
                type_santander |-> empty_to_none_str(columns[i].TypeTemp),
                from_etl |-> name_file,
                type_etl |-> empty_to_none_str(columns[i].TypeFile),
                is_key |-> columns[i].Key,
                is_used_in_system |-> GetOr(system_col_data, "is_used_in_system", FALSE),
                s3_info |-> check_column_in_s3(OrEmpty(name_temp), s3_file_data)]]

\* table_info of one ETL configuration
Pt_table_info(etl_config, s3_file_data, s3_comparison, system_comparison) ==
    LET columns_detail ==
            Pt_columns_detail(etl_config.columns, s3_file_data, system_comparison)
    IN [config_name |-> etl_config.config_name,
        final_table |-> etl_config.final_table,
        columns |-> columns_detail,
        s3_comparison |->
            [has_s3_file |-> s3_file_data # EmptyDict,
             s3_columns_count |-> GetOr(s3_file_data, "columns_count", 0),
             columns_in_both_count |-> GetOr(s3_comparison, "columns_in_both_count", 0),
             columns_only_in_s3_count |->
                 GetOr(s3_comparison, "columns_only_in_s3_count", 0),
             columns_only_in_etl_count |->
                 GetOr(s3_comparison, "columns_only_in_etl_count", 0)],
        system_comparison |->
            [has_system_data |-> GetOr(system_comparison, "has_system_data", FALSE),
             columns_unused_in_system_count |->
                 GetOr(system_comparison, "columns_unused_in_system_count", 0),
             columns_used_in_system_count |->
                 GetOr(system_comparison, "columns_used_in_system_count", 0),
             system_unused_columns_count |->
                 GetOr(system_comparison, "system_unused_columns_count", 0)],
        columns_not_in_system_count |->
            Cardinality({i \in DOMAIN columns_detail :
                            ~columns_detail[i].is_used_in_system})]

\* the consolidated document of Portal Turbo; a missing ETL document reads
\* as {} and gives a document without tables
Pt_consolidated(etl_metadata, s3_metadata, s3_comparison_data, system_comparison_data) ==
    LET s3_comparison_map == PtS3ComparisonMap(ComparisonsOf(s3_comparison_data))
        system_comparison_map == PtSystemComparisonMap(ComparisonsOf(system_comparison_data))
        s3_files_map == PtS3FilesMap(FilesOf(s3_metadata))
        configs == ConfigsOf(etl_metadata)
    IN [total_tables |-> Len(configs),
        tables |->
            [i \in DOMAIN configs |->
                Pt_table_info(configs[i],
                    DictGetOr(s3_files_map, configs[i].config_name, EmptyDict),
                    DictGetOr(s3_comparison_map, configs[i].config_name, EmptyDict),
                    DictGetOr(system_comparison_map, configs[i].config_name, EmptyDict))]]

\* PortalTurboConsolidatedMetadataService.consolidate: every input is
\* optional, the document is always written
PtConsolidate ==
    /\ project = "portal_turbo"
    /\ ptCons' = Pt_consolidated(ptEtl, ptS3, ptS3cmp, ptSyscmp)
    /\ last' = [op |-> "pt_consolidate", status |-> "written"]
    /\ UNCHANGED <<chamaVars, ctVars, ptEtl, ptS3, ptS3cmp, ptSyscmp, project, normVars, pubVars, pipeVars>>

(***************************************************************************)
(* Specification of the comparators: the source documents of one product   *)
(* line are on disk, and its compare() methods run in any order.           *)
(***************************************************************************)
NoOp == [op |-> "none", status |-> "none"]

\* no normalizer has been called
NotCalled == [called |-> FALSE]

NormIdle == nameIn = <<>> /\ normOut = NotCalled

\* projects = ['consultor_turbo', 'portal_turbo', 'chama']
projects == <<"consultor_turbo", "portal_turbo", "chama">>

\* main is not running
Idle == [idx |-> 0, stage |-> 0]

\* a project the loop of main has not reached
NotStarted == "none"

NoOutcome == [i \in DOMAIN projects |-> NotStarted]

\* no Chama document has been written by a run of main
NoStamps == [etl |-> 0, s3 |-> 0, s3cmp |-> 0, syscmp |-> 0, cons |-> 0]

\* no stage has been reached
NoTrace == <<>>

\* an empty Confluence space and no publication
NotPublishing ==
    [at |-> "idle", svc |-> "none", k |-> 0, items |-> <<>>, parent_id |-> 0,
     pages |-> <<>>, errors |-> <<>>, success |-> FALSE]

PubIdle == wiki = <<>> /\ pub = NotPublishing /\ log = <<>>

PipeIdle ==
    /\ pc = Idle /\ run = 0 /\ stamp = NoStamps /\ outcome = NoOutcome
    /\ trace = NoTrace

ChamaAbsent ==
    /\ etl = Absent /\ s3 = Absent /\ sys = Absent
    /\ s3cmp = Absent /\ syscmp = Absent /\ cons = Absent

CtAbsent ==
    /\ ctEtl = Absent /\ ctS3 = Absent /\ ctSys = Absent
    /\ ctS3cmp = Absent /\ ctSyscmp = Absent

PtAbsent ==
    /\ ptEtl = Absent /\ ptS3 = Absent
    /\ ptS3cmp = Absent /\ ptSyscmp = Absent /\ ptCons = Absent

InitChamaS3 ==
    /\ etl \in EtlDocsOneMap \cup {Absent}
    /\ s3 \in S3Docs \cup {Absent}
    /\ sys = Absent /\ s3cmp = Absent /\ syscmp = Absent /\ cons = Absent
    /\ CtAbsent /\ PtAbsent /\ project = "chama" /\ last = NoOp
    /\ NormIdle /\ PipeIdle /\ PubIdle

InitChamaSys ==
    /\ etl \in EtlDocsOneFile
    /\ sys \in SysDocs \cup {Absent}
    /\ s3 = Absent /\ s3cmp = Absent /\ syscmp = Absent /\ cons = Absent
    /\ CtAbsent /\ PtAbsent /\ project = "chama" /\ last = NoOp
    /\ NormIdle /\ PipeIdle /\ PubIdle

InitCtS3 ==
    /\ ctEtl \in CtEtlDocs \cup {Absent}
    /\ ctS3 \in CtS3Docs \cup {Absent}
    /\ ctSys = Absent /\ ctS3cmp = Absent /\ ctSyscmp = Absent
    /\ ChamaAbsent /\ PtAbsent /\ project = "consultor_turbo" /\ last = NoOp
    /\ NormIdle /\ PipeIdle /\ PubIdle

InitCtSys ==
    /\ ctEtl \in CtEtlDocsOneConfig
    /\ ctSys \in SysDocs \cup {Absent}
    /\ ctS3 = Absent /\ ctS3cmp = Absent /\ ctSyscmp = Absent
    /\ ChamaAbsent /\ PtAbsent /\ project = "consultor_turbo" /\ last = NoOp
    /\ NormIdle /\ PipeIdle /\ PubIdle

InitCompare == InitChamaS3 \/ InitChamaSys \/ InitCtS3 \/ InitCtSys

NextCompare == ChamaS3Compare \/ ChamaSysCompare \/ CtS3Compare \/ CtSysCompare

SpecCompare == InitCompare /\ [][NextCompare]_vars

(***************************************************************************)
(* Specification of the consolidators: the documents of one product line   *)
(* are on disk; for Chama the comparators and the consolidator run in any  *)
(* order (each has its own script), for Portal Turbo the consolidator runs *)
(* on the comparison documents it finds.                                   *)
(***************************************************************************)
\* the ETL documents of the consolidation runs
ConsEtlDocs == {d \in EtlDocs : \A i \in DOMAIN d.files : Len(d.files[i].mappings) <= 2}

\* the S3 documents of the consolidation runs: at most one file with at most
\* one field
ConsS3Docs ==
    {d \in S3Docs : Len(d.files) <= 1
                    /\ \A i \in DOMAIN d.files : TotalFields(d.files[i]) <= 1}

\* the usage document of the consolidation runs
ConsSysDocs ==
    {[items |-> <<[tabela |-> "t1",
                   colunas_nao_utilizadas |-> ListEncoding(<<<<"B", " ">>>>)]>>]}

InitChamaConsolidate ==
    /\ etl \in ConsEtlDocs \cup {Absent}
    /\ s3 \in ConsS3Docs \cup {Absent}
    /\ sys \in ConsSysDocs
    /\ s3cmp = Absent /\ syscmp = Absent /\ cons = Absent
    /\ CtAbsent /\ PtAbsent /\ project = "chama" /\ last = NoOp
    /\ NormIdle /\ PipeIdle /\ PubIdle

InitPtConsolidate ==
    /\ ptEtl \in PtEtlDocs \cup {Absent}
    /\ ptS3 \in PtS3Docs \cup {Absent}
    /\ ptS3cmp \in PtS3ComparisonDocs \cup {Absent}
    /\ ptSyscmp \in PtSystemComparisonDocs \cup {Absent}
    /\ ptCons = Absent
    /\ ChamaAbsent /\ CtAbsent /\ project = "portal_turbo" /\ last = NoOp
    /\ NormIdle /\ PipeIdle /\ PubIdle

InitConsolidate == InitChamaConsolidate \/ InitPtConsolidate

NextConsolidate ==
    ChamaS3Compare \/ ChamaSysCompare \/ ChamaConsolidate \/ PtConsolidate

SpecConsolidate == InitConsolidate /\ [][NextConsolidate]_vars

(***************************************************************************)
(* Specification of the normalizers: a name, or None, is handed to every   *)
(* normalizer of the comparators, loaders and consolidators.               *)
(***************************************************************************)
\* characters of a name
NameChars == {"A", "a", " ", "\t"}

\* longest name handed to the normalizers
MaxNameLen == 3

Names == SeqsUpTo(NameChars, MaxNameLen)

\* a normalizer applied to its own result
Twice(F(_), x) == LET r == F(x) IN IF r = Raises THEN Raises ELSE F(r)

\* each normalizer of the source on x
Normalized(x) ==
    [chama_s3 |-> normalize_column_name(x),
     chama_system |-> Sys_normalize_column_name(x),
     chama_from_system |-> FromSystem_normalize_name(x),
     chama_consolidated |-> Cons_normalize_name(x),
     ct_s3_metadata |-> CtS3Meta_normalize_column_name(x),
     ct_s3 |-> Ct_normalize_column_name(x),
     ct_system |-> CtSys_normalize_column_name(x),
     pt_s3_metadata |-> PtS3Meta_normalize_column_name(x),
     pt_consolidated |-> Pt_normalize_name(x)]

\* each normalizer of the source on its own result for x
NormalizedTwice(x) ==
    [chama_s3 |-> Twice(normalize_column_name, x),
     chama_system |-> Twice(Sys_normalize_column_name, x),
     chama_from_system |-> Twice(FromSystem_normalize_name, x),
     chama_consolidated |-> Twice(Cons_normalize_name, x),
     ct_s3_metadata |-> Twice(CtS3Meta_normalize_column_name, x),
     ct_s3 |-> Twice(Ct_normalize_column_name, x),
     ct_system |-> Twice(CtSys_normalize_column_name, x),
     pt_s3_metadata |-> Twice(PtS3Meta_normalize_column_name, x),
     pt_consolidated |-> Twice(Pt_normalize_name, x)]

Normalizers == DOMAIN Normalized(<<>>)

\* the normalizers are called on the name, then on what they returned
NormalizeName ==
    /\ project = "names"
    /\ normOut = NotCalled
    /\ normOut' = [called |-> TRUE, once |-> Normalized(nameIn),
                   twice |-> NormalizedTwice(nameIn)]
    /\ last' = [op |-> "normalize", status |-> "returned"]
    /\ UNCHANGED <<chamaVars, ctVars, ptVars, project, nameIn, pipeVars, pubVars>>

InitNormalize ==
    /\ nameIn \in Names \cup {NoneVal}
    /\ normOut = NotCalled
    /\ ChamaAbsent /\ CtAbsent /\ PtAbsent /\ project = "names" /\ last = NoOp
    /\ PipeIdle /\ PubIdle

NextNormalize == NormalizeName

SpecNormalize == InitNormalize /\ [][NextNormalize]_vars

(***************************************************************************)
(* run_app.main: for each project of the list, six stages inside one       *)
(* try/except.  The Chama documents are followed through the stages, with  *)
(* the run that wrote each of them; of Consultor Turbo the ETL, storage    *)
(* and storage-comparison documents are followed; of Portal Turbo, and of  *)
(* the consolidation of Consultor Turbo, only the stage reached and how    *)
(* it ended.  A stage that writes a file raises when the file cannot be    *)
(* opened for writing.  main is run again and again, on sources that may   *)
(* have changed or disappeared since the run before.                       *)
(***************************************************************************)
\* number of runs of main
MaxRuns == 2

\* project_name of the loop of main
project_name == projects[pc.idx]

\* main is at stage k of some project
AtStage(k) == project = "run_app" /\ pc.idx \in DOMAIN projects /\ pc.stage = k

\* the statement after the stage is reached
GoOn == pc' = [pc EXCEPT !.stage = @ + 1] /\ outcome' = outcome

\* continue: by the except clause ("failed"), by the check of configs_raw
\* ("no_configs"), or at the end of the body of the loop ("completed")
Leave_loop(status) ==
    /\ pc' = [idx |-> Len(projects) + 1, stage |-> 0]
    /\ outcome' = [outcome EXCEPT ![pc.idx] = status]

Leave(status) ==
    /\ pc' = [idx |-> pc.idx + 1, stage |-> 0]
    /\ outcome' = [outcome EXCEPT ![pc.idx] = status]

\* files of etl_metadata_architecture.json ; <<>> when the file is missing
PipeArchFiles ==
    LET one == AddField(AddMapping(AddFile([files |-> <<>>], "f1"),
                                   [map |-> "m1", table |-> "t1"]),
                        [from_santander |-> <<"A", "b">>, laborit |-> <<"b">>,
                         type |-> "int"])
        two == AddField(one, [from_santander |-> <<"b">>, laborit |-> <<"a">>,
                              type |-> "int"])
    IN {<<>>, one.files, two.files}

\* s3_metadata_archives.json, or Absent when the file is missing
PipeS3Sources ==
    {Absent, [files |-> <<>>],
     AddField(AddMapping(AddFile([files |-> <<>>], "f1"),
                         [map |-> "m1", table |-> "t1"]),
              [from_santander |-> <<"a", "B">>, laborit |-> <<"b">>, type |-> "str"])}

\* chama_system.json, or Absent when the file is missing
PipeSysDocs ==
    {Absent,
     [items |-> <<[tabela |-> "t1",
                   colunas_nao_utilizadas |-> ListEncoding(<<<<"B", " ">>>>)]>>]}

\* configs_info of Consultor Turbo ; <<>> when the directory has no JSON file
PipeCtConfigs ==
    {<<>>,
     <<[config_name |-> "f1", final_table |-> "t1",
        columns |-> <<[NameFile |-> <<"b">>, NameTemp |-> <<"A", "b">>,
                       TypeFile |-> "int", TypeTemp |-> "str", Key |-> TRUE]>>]>>}

\* the CSV files under the S3 path of Consultor Turbo
PipeCtCsv == {<<>>, <<[base_name |-> "f1", header |-> <<<<"a", "B">>>>]>>}

\* ChamaS3ComparatorService.compare: the comparison document on disk after
\* the call, on_disk being the one before it
ChamaS3_compare_always(s3_metadata, etl_metadata, on_disk) ==
    ChamaS3_compare_metadatas(s3_metadata, etl_metadata)

ChamaS3_compare(s3_metadata, etl_metadata, on_disk) ==
    IF FilesOf(s3_metadata) = <<>> \/ FilesOf(etl_metadata) = <<>>
    THEN on_disk
    ELSE ChamaS3_compare_metadatas(s3_metadata, etl_metadata)

\* main() is called; chama_system.json is as the run finds it
MainStart ==
    /\ project = "run_app" /\ pc = Idle /\ run < MaxRuns
    /\ run' = run + 1
    /\ pc' = [idx |-> 1, stage |-> 0]
    /\ outcome' = NoOutcome
    /\ trace' = NoTrace
    /\ sys' \in PipeSysDocs
    /\ last' = [op |-> "main", status |-> "started"]
    /\ UNCHANGED <<etl, s3, s3cmp, syscmp, cons, ctVars, ptVars, project, normVars, pubVars, stamp>>

\* load_project_config, project_config['config_path'] and the controller
ProjectConfig ==
    /\ AtStage(0)
    /\ trace' = NoTrace
    /\ \E config_ok \in BOOLEAN :
          IF config_ok
          THEN GoOn /\ last' = [op |-> "project_config", status |-> "loaded"]
          ELSE Leave("failed") /\ last' = [op |-> "project_config", status |-> "raised"]
    /\ UNCHANGED <<chamaVars, ctVars, ptVars, project, normVars, pubVars, run, stamp>>

\* ETAPA 1: config_loader.load_all, extract_config_info and
\* generate_etl_metadata_json
EtlStage ==
    /\ AtStage(1)
    /\ trace' = Append(trace, "etl")
    /\ \/ /\ project_name = "chama"
          /\ \E configs_raw \in PipeArchFiles, io_ok \in BOOLEAN :
                IF configs_raw = <<>>
                THEN /\ Leave("no_configs")
                     /\ UNCHANGED <<etl, stamp>>
                     /\ last' = [op |-> "chama_etl_metadata", status |-> "skipped"]
                ELSE IF io_ok
                THEN /\ etl' = [files |-> configs_raw]
                     /\ stamp' = [stamp EXCEPT !.etl = run]
                     /\ GoOn
                     /\ last' = [op |-> "chama_etl_metadata", status |-> "written"]
                ELSE /\ Leave("failed")
                     /\ UNCHANGED <<etl, stamp>>
                     /\ last' = [op |-> "chama_etl_metadata", status |-> "raised"]
          /\ UNCHANGED ctEtl
       \/ /\ project_name = "consultor_turbo"
          /\ \E configs_info \in PipeCtConfigs, io_ok \in BOOLEAN :
                IF configs_info = <<>>
                THEN /\ Leave("no_configs")
                     /\ UNCHANGED ctEtl
                     /\ last' = [op |-> "ct_etl_metadata", status |-> "skipped"]
                ELSE IF io_ok
                THEN /\ ctEtl' = [configs |-> configs_info]
                     /\ GoOn
                     /\ last' = [op |-> "ct_etl_metadata", status |-> "written"]
                ELSE /\ Leave("failed")
                     /\ UNCHANGED ctEtl
                     /\ last' = [op |-> "ct_etl_metadata", status |-> "raised"]
          /\ UNCHANGED <<etl, stamp>>
       \/ /\ project_name = "portal_turbo"
          /\ \E ended \in {"written", "skipped", "raised"} :
                /\ CASE ended = "written" -> GoOn
                     [] ended = "skipped" -> Leave("no_configs")
                     [] OTHER -> Leave("failed")
                /\ last' = [op |-> "pt_etl_metadata", status |-> ended]
          /\ UNCHANGED <<etl, stamp, ctEtl>>
    /\ UNCHANGED <<s3, sys, s3cmp, syscmp, cons, ctS3, ctSys, ctS3cmp, ctSyscmp,
                   ptVars, project, normVars, pubVars, run>>

\* ETAPA 2: skipped when the S3 path does not exist.  The Chama service
\* writes nothing when s3_metadata_archives.json is missing, and catches
\* what its reading and writing raise.
S3Stage ==
    /\ AtStage(2)
    /\ trace' = Append(trace, "s3")
    /\ \/ /\ project_name = "chama"
          /\ \E s3_path_exists \in BOOLEAN, s3_data \in PipeS3Sources, io_ok \in BOOLEAN :
                IF s3_path_exists /\ s3_data # Absent /\ io_ok
                THEN /\ s3' = [files |-> s3_data.files]
                     /\ stamp' = [stamp EXCEPT !.s3 = run]
                     /\ last' = [op |-> "chama_s3_metadata", status |-> "written"]
                ELSE /\ UNCHANGED <<s3, stamp>>
                     /\ last' = [op |-> "chama_s3_metadata", status |-> "skipped"]
          /\ GoOn
          /\ UNCHANGED ctS3
       \/ /\ project_name = "consultor_turbo"
          /\ \E s3_path_exists \in BOOLEAN, csv \in PipeCtCsv, io_ok \in BOOLEAN :
                IF ~s3_path_exists
                THEN /\ GoOn
                     /\ UNCHANGED ctS3
                     /\ last' = [op |-> "ct_s3_metadata", status |-> "skipped"]
                ELSE IF io_ok
                THEN /\ ctS3' = generate_from_santander_metadata(csv)
                     /\ GoOn
                     /\ last' = [op |-> "ct_s3_metadata", status |-> "written"]
                ELSE /\ Leave("failed")
                     /\ UNCHANGED ctS3
                     /\ last' = [op |-> "ct_s3_metadata", status |-> "raised"]
          /\ UNCHANGED <<s3, stamp>>
       \/ /\ project_name = "portal_turbo"
          /\ \E ended \in {"written", "skipped", "raised"} :
                /\ IF ended = "raised" THEN Leave("failed") ELSE GoOn
                /\ last' = [op |-> "pt_s3_metadata", status |-> ended]
          /\ UNCHANGED <<s3, stamp, ctS3>>
    /\ UNCHANGED <<etl, sys, s3cmp, syscmp, cons, ctEtl, ctSys, ctS3cmp, ctSyscmp,
                   ptVars, project, normVars, pubVars, run>>

\* ETAPA 3: skipped when one of the two JSON files does not exist;
\* otherwise comparator.compare()
S3CompareStage ==
    /\ AtStage(3)
    /\ trace' = Append(trace, "s3_compare")
    /\ \/ /\ project_name = "chama"
          /\ \E io_ok \in BOOLEAN :
                IF etl = Absent \/ s3 = Absent
                THEN /\ GoOn
                     /\ UNCHANGED <<s3cmp, stamp>>
                     /\ last' = [op |-> "chama_s3_compare", status |-> "skipped"]
                ELSE IF FilesOf(s3) = <<>> \/ FilesOf(etl) = <<>>
                THEN /\ GoOn
                     /\ s3cmp' = ChamaS3_compare(s3, etl, s3cmp)
                     /\ stamp' = stamp
                     /\ last' = [op |-> "chama_s3_compare", status |-> "skipped"]
                ELSE IF io_ok
                THEN /\ s3cmp' = ChamaS3_compare(s3, etl, s3cmp)
                     /\ stamp' = [stamp EXCEPT !.s3cmp = run]
                     /\ GoOn
                     /\ last' = [op |-> "chama_s3_compare", status |-> "written"]
                ELSE /\ Leave("failed")
                     /\ UNCHANGED <<s3cmp, stamp>>
                     /\ last' = [op |-> "chama_s3_compare", status |-> "raised"]
          /\ UNCHANGED ctS3cmp
       \/ /\ project_name = "consultor_turbo"
          /\ \E io_ok \in BOOLEAN :
                IF ctEtl = Absent \/ ctS3 = Absent
                   \/ FilesOf(ctS3) = <<>> \/ ConfigsOf(ctEtl) = <<>>
                THEN /\ GoOn
                     /\ UNCHANGED ctS3cmp
                     /\ last' = [op |-> "ct_s3_compare", status |-> "skipped"]
                ELSE IF io_ok
                THEN /\ ctS3cmp' = CtS3_compare_metadatas(ctS3, ctEtl)
                     /\ GoOn
                     /\ last' = [op |-> "ct_s3_compare", status |-> "written"]
                ELSE /\ Leave("failed")
                     /\ UNCHANGED ctS3cmp
                     /\ last' = [op |-> "ct_s3_compare", status |-> "raised"]
          /\ UNCHANGED <<s3cmp, stamp>>
       \/ /\ project_name = "portal_turbo"
          /\ \E ended \in {"written", "skipped", "raised"} :
                /\ IF ended = "raised" THEN Leave("failed") ELSE GoOn
                /\ last' = [op |-> "pt_s3_compare", status |-> ended]
          /\ UNCHANGED <<s3cmp, stamp, ctS3cmp>>
    /\ UNCHANGED <<etl, s3, sys, syscmp, cons, ctEtl, ctS3, ctSys, ctSyscmp,
                   ptVars, project, normVars, pubVars, run>>

\* ETAPA 4: skipped when one of the two JSON files does not exist;
\* otherwise system_comparator.compare()
SysCompareStage ==
    /\ AtStage(4)
    /\ trace' = Append(trace, "sys_compare")
    /\ \/ /\ project_name = "chama"
          /\ \E io_ok \in BOOLEAN :
                IF etl = Absent \/ sys = Absent
                   \/ FilesOf(etl) = <<>> \/ ItemsOf(sys) = <<>>
                THEN /\ GoOn
                     /\ UNCHANGED <<syscmp, stamp>>
                     /\ last' = [op |-> "chama_sys_compare", status |-> "skipped"]
                ELSE IF io_ok
                THEN /\ syscmp' = ChamaSys_compare_metadatas(etl, sys, sys)
                     /\ stamp' = [stamp EXCEPT !.syscmp = run]
                     /\ GoOn
                     /\ last' = [op |-> "chama_sys_compare", status |-> "written"]
                ELSE /\ Leave("failed")
                     /\ UNCHANGED <<syscmp, stamp>>
                     /\ last' = [op |-> "chama_sys_compare", status |-> "raised"]
          /\ UNCHANGED ctSyscmp
       \/ /\ project_name = "consultor_turbo"
          /\ \E io_ok \in BOOLEAN :
                IF ctEtl = Absent \/ ctSys = Absent
                   \/ ConfigsOf(ctEtl) = <<>> \/ ItemsOf(ctSys) = <<>>
                THEN /\ GoOn
                     /\ UNCHANGED ctSyscmp
                     /\ last' = [op |-> "ct_sys_compare", status |-> "skipped"]
                ELSE IF io_ok
                THEN /\ ctSyscmp' = CtSys_compare_metadatas(ctEtl, ctSys, ctSys)
                     /\ GoOn
                     /\ last' = [op |-> "ct_sys_compare", status |-> "written"]
                ELSE /\ Leave("failed")
                     /\ UNCHANGED ctSyscmp
                     /\ last' = [op |-> "ct_sys_compare", status |-> "raised"]
          /\ UNCHANGED <<syscmp, stamp>>
       \/ /\ project_name = "portal_turbo"
          /\ \E ended \in {"written", "skipped", "raised"} :
                /\ IF ended = "raised" THEN Leave("failed") ELSE GoOn
                /\ last' = [op |-> "pt_sys_compare", status |-> ended]
          /\ UNCHANGED <<syscmp, stamp, ctSyscmp>>
    /\ UNCHANGED <<etl, s3, sys, s3cmp, cons, ctEtl, ctS3, ctSys, ctS3cmp,
                   ptVars, project, normVars, pubVars, run>>

\* ETAPA 5: consolidator.consolidate()
ConsolidateStage ==
    /\ AtStage(5)
    /\ trace' = Append(trace, "consolidate")
    /\ \/ /\ project_name = "chama"
          /\ \E io_ok \in BOOLEAN :
                IF etl = Absent
                THEN /\ GoOn
                     /\ UNCHANGED <<cons, stamp>>
                     /\ last' = [op |-> "chama_consolidate", status |-> "aborted"]
                ELSE IF io_ok
                THEN /\ cons' = Chama_consolidated(etl, s3, s3cmp, syscmp)
                     /\ stamp' = [stamp EXCEPT !.cons = run]
                     /\ GoOn
                     /\ last' = [op |-> "chama_consolidate", status |-> "written"]
                ELSE /\ Leave("failed")
                     /\ UNCHANGED <<cons, stamp>>
                     /\ last' = [op |-> "chama_consolidate", status |-> "raised"]
       \/ /\ project_name = "consultor_turbo"
          /\ \E ended \in {"written", "raised"} :
                /\ IF ended = "raised" THEN Leave("failed") ELSE GoOn
                /\ last' = [op |-> "ct_consolidate", status |-> ended]
          /\ UNCHANGED <<cons, stamp>>
       \/ /\ project_name = "portal_turbo"
          /\ \E ended \in {"written", "raised"} :
                /\ IF ended = "raised" THEN Leave("failed") ELSE GoOn
                /\ last' = [op |-> "pt_consolidate", status |-> ended]
          /\ UNCHANGED <<cons, stamp>>
    /\ UNCHANGED <<etl, s3, sys, s3cmp, syscmp, ctVars, ptVars, project, normVars, pubVars, run>>

\* ETAPA 6: the publication is skipped, succeeds, reports a failure or
\* raises inside its own try/except; the body of the loop ends either way
PublishStage ==
    /\ AtStage(6)
    /\ trace' = Append(trace, "publish")
    /\ \E ended \in {"published", "skipped", "raised"} :
          last' = [op |-> "publish", status |-> ended]
    /\ Leave("completed")
    /\ UNCHANGED <<chamaVars, ctVars, ptVars, project, normVars, pubVars, run, stamp>>

\* the loop is over: main prints its last lines and returns
MainEnd ==
    /\ project = "run_app" /\ pc.idx = Len(projects) + 1
    /\ pc' = Idle
    /\ last' = [op |-> "main", status |-> "returned"]
    /\ UNCHANGED <<chamaVars, ctVars, ptVars, project, normVars, pubVars, run, stamp, outcome,
                   trace>>

InitPipeline ==
    /\ ChamaAbsent /\ CtAbsent /\ PtAbsent
    /\ project = "run_app" /\ last = NoOp
    /\ NormIdle /\ PipeIdle /\ PubIdle

NextPipeline ==
    \/ MainStart \/ ProjectConfig \/ EtlStage \/ S3Stage \/ S3CompareStage
    \/ SysCompareStage \/ ConsolidateStage \/ PublishStage \/ MainEnd

SpecPipeline == InitPipeline /\ [][NextPipeline]_vars

(***************************************************************************)
(* generate_docs of the controllers                                        *)
(***************************************************************************)
\* the controllers whose generate_docs is followed: PortalTurboController
\* and ChamaController, by their position in projects
Controllers == {2, 3}

\* generate_docs of the controller of projects[pc.idx] is at step k
InGenerateDocs(k) ==
    project = "generate_docs" /\ pc.idx \in Controllers /\ pc.stage = k

\* generate_docs returns, or what it called raised
Return(status) ==
    /\ pc' = Idle
    /\ outcome' = [outcome EXCEPT ![pc.idx] = status]

\* etl_vs_system_metadata.json as an earlier run of main may have left it
PipeOldSysComparisons ==
    {Absent} \cup
    {ChamaSys_compare_metadatas([files |-> f], d, d) :
        f \in PipeArchFiles \ {<<>>}, d \in PipeSysDocs \ {Absent}}

\* controller.generate_docs() is called
GenerateDocsCall ==
    /\ project = "generate_docs" /\ pc = Idle /\ run < MaxRuns
    /\ run' = run + 1
    /\ \E c \in Controllers : pc' = [idx |-> c, stage |-> 1]
    /\ outcome' = NoOutcome
    /\ trace' = NoTrace
    /\ last' = [op |-> "generate_docs", status |-> "started"]
    /\ UNCHANGED <<chamaVars, ctVars, ptVars, project, normVars, pubVars, stamp>>

\* config_loader.load_all, the return when nothing was found,
\* extract_config_info and generate_etl_metadata_json
GenerateDocsEtl ==
    /\ InGenerateDocs(1)
    /\ trace' = Append(trace, "etl")
    /\ \/ /\ project_name = "chama"
          /\ \E configs_raw \in PipeArchFiles, io_ok \in BOOLEAN :
                IF configs_raw = <<>>
                THEN /\ Return("no_configs")
                     /\ UNCHANGED <<etl, stamp>>
                     /\ last' = [op |-> "chama_etl_metadata", status |-> "skipped"]
                ELSE IF io_ok
                THEN /\ etl' = [files |-> configs_raw]
                     /\ stamp' = [stamp EXCEPT !.etl = run]
                     /\ GoOn
                     /\ last' = [op |-> "chama_etl_metadata", status |-> "written"]
                ELSE /\ Return("failed")
                     /\ UNCHANGED <<etl, stamp>>
                     /\ last' = [op |-> "chama_etl_metadata", status |-> "raised"]
       \/ /\ project_name = "portal_turbo"
          /\ \E ended \in {"written", "skipped", "raised"} :
                /\ CASE ended = "written" -> GoOn
                     [] ended = "skipped" -> Return("no_configs")
                     [] OTHER -> Return("failed")
                /\ last' = [op |-> "pt_etl_metadata", status |-> ended]
          /\ UNCHANGED <<etl, stamp>>
    /\ UNCHANGED <<s3, sys, s3cmp, syscmp, cons, ctVars, ptVars, project, normVars, pubVars, run>>

\* if self.s3_path: self._run_s3_comparison(), which generates the S3
\* metadata and calls comparator.compare()
GenerateDocsS3Comparison ==
    /\ InGenerateDocs(2)
    /\ \E s3_path \in BOOLEAN :
          IF ~s3_path
          THEN /\ GoOn
               /\ trace' = trace
               /\ UNCHANGED <<s3, s3cmp, stamp>>
               /\ last' = [op |-> "run_s3_comparison", status |-> "skipped"]
          ELSE /\ trace' = Append(trace, "s3_compare")
               /\ \/ /\ project_name = "chama"
                     /\ \E s3_data \in PipeS3Sources, io_ok \in BOOLEAN :
                          LET s3_now == IF s3_data # Absent
                                        THEN [files |-> s3_data.files] ELSE s3
                          IN IF FilesOf(s3_now) = <<>> \/ FilesOf(etl) = <<>>
                             THEN /\ s3' = s3_now
                                  /\ s3cmp' = ChamaS3_compare(s3_now, etl, s3cmp)
                                  /\ stamp' = stamp
                                  /\ GoOn
                                  /\ last' = [op |-> "chama_s3_compare",
                                              status |-> "skipped"]
                             ELSE IF io_ok
                             THEN /\ s3' = s3_now
                                  /\ s3cmp' = ChamaS3_compare(s3_now, etl, s3cmp)
                                  /\ stamp' = [stamp EXCEPT !.s3cmp = run]
                                  /\ GoOn
                                  /\ last' = [op |-> "chama_s3_compare",
                                              status |-> "written"]
                             ELSE /\ s3' = s3_now
                                  /\ UNCHANGED <<s3cmp, stamp>>
                                  /\ Return("failed")
                                  /\ last' = [op |-> "chama_s3_compare",
                                              status |-> "raised"]
                  \/ /\ project_name = "portal_turbo"
                     /\ \E ended \in {"written", "skipped", "raised"} :
                          /\ IF ended = "raised" THEN Return("failed") ELSE GoOn
                          /\ last' = [op |-> "pt_s3_compare", status |-> ended]
                     /\ UNCHANGED <<s3, s3cmp, stamp>>
    /\ UNCHANGED <<etl, sys, syscmp, cons, ctVars, ptVars, project, normVars, pubVars, run>>

\* the step of generate_docs that consolidates: PortalTurboController
\* generates portal_system.json before it, ChamaController does not
ConsolidateStep == IF project_name = "portal_turbo" THEN 4 ELSE 3

\* PortalTurboController only: system_generator.generate_portal_system_json()
GenerateDocsSystemJson ==
    /\ InGenerateDocs(3) /\ project_name = "portal_turbo"
    /\ trace' = Append(trace, "system_json")
    /\ \E ended \in {"written", "raised"} :
          /\ IF ended = "raised" THEN Return("failed") ELSE GoOn
          /\ last' = [op |-> "pt_system_json", status |-> ended]
    /\ UNCHANGED <<chamaVars, ctVars, ptVars, project, normVars, pubVars, run, stamp>>

\* consolidator.consolidate()
GenerateDocsConsolidate ==
    /\ project = "generate_docs" /\ pc.idx \in Controllers
    /\ pc.stage = ConsolidateStep
    /\ trace' = Append(trace, "consolidate")
    /\ \/ /\ project_name = "chama"
          /\ \E io_ok \in BOOLEAN :
                IF etl = Absent
                THEN /\ GoOn
                     /\ UNCHANGED <<cons, stamp>>
                     /\ last' = [op |-> "chama_consolidate", status |-> "aborted"]
                ELSE IF io_ok
                THEN /\ cons' = Chama_consolidated(etl, s3, s3cmp, syscmp)
                     /\ stamp' = [stamp EXCEPT !.cons = run]
                     /\ GoOn
                     /\ last' = [op |-> "chama_consolidate", status |-> "written"]
                ELSE /\ Return("failed")
                     /\ UNCHANGED <<cons, stamp>>
                     /\ last' = [op |-> "chama_consolidate", status |-> "raised"]
       \/ /\ project_name = "portal_turbo"
          /\ \E ended \in {"written", "raised"} :
                /\ IF ended = "raised" THEN Return("failed") ELSE GoOn
                /\ last' = [op |-> "pt_consolidate", status |-> ended]
          /\ UNCHANGED <<cons, stamp>>
    /\ UNCHANGED <<etl, s3, sys, s3cmp, syscmp, ctVars, ptVars, project, normVars, pubVars, run>>

\* documentation_service.generate_documentation() and _print_statistics;
\* generate_docs returns
GenerateDocsDocumentation ==
    /\ project = "generate_docs" /\ pc.idx \in Controllers
    /\ pc.stage = ConsolidateStep + 1
    /\ trace' = Append(trace, "documentation")
    /\ \E ended \in {"written", "raised"} :
          /\ Return(IF ended = "raised" THEN "failed" ELSE "completed")
          /\ last' = [op |-> "documentation", status |-> ended]
    /\ UNCHANGED <<chamaVars, ctVars, ptVars, project, normVars, pubVars, run, stamp>>

InitGenerateDocs ==
    /\ etl = Absent /\ s3 = Absent /\ s3cmp = Absent /\ cons = Absent
    /\ sys \in PipeSysDocs
    /\ syscmp \in PipeOldSysComparisons
    /\ CtAbsent /\ PtAbsent
    /\ project = "generate_docs" /\ last = NoOp
    /\ NormIdle /\ PipeIdle /\ PubIdle

NextGenerateDocs ==
    \/ GenerateDocsCall \/ GenerateDocsEtl \/ GenerateDocsS3Comparison
    \/ GenerateDocsSystemJson \/ GenerateDocsConsolidate
    \/ GenerateDocsDocumentation

SpecGenerateDocs == InitGenerateDocs /\ [][NextGenerateDocs]_vars

(***************************************************************************)
(* Publication of the consolidated document to Confluence                  *)
(***************************************************************************)
\* mappings (Chama) or tables (Portal Turbo) of the published document
MaxPages == 2

\* (map, table) of the published Chama mappings: two of them have the same
\* table, one has no table
PubMappingIds ==
    {[map |-> "m1", table |-> "t1"], [map |-> "m2", table |-> "t1"],
     [map |-> "m2", table |-> "t2"], [map |-> "m1", table |-> ""]}

\* (config_name, final_table) of the published Portal Turbo tables: two of
\* them have the same final table
PubConfigIds ==
    {[config_name |-> "f1", final_table |-> "t1"],
     [config_name |-> "f2", final_table |-> "t1"],
     [config_name |-> "f2", final_table |-> "t2"]}

\* the sequences of at most n elements of S
RECURSIVE ListsUpTo(_, _)
ListsUpTo(S, n) ==
    IF n = 0 THEN {<<>>}
    ELSE LET prev == ListsUpTo(S, n - 1)
         IN prev \cup {Append(l, x) : l \in prev, x \in S}

\* consolidated_metadata.json of Chama as consolidate() writes it for one
\* file, with no comparison documents; without files; or missing
PubChamaDocs ==
    {Absent, [files |-> <<>>]} \cup
    {Chama_consolidated(
         [files |-> <<[name |-> "f1",
                       mappings |-> [j \in DOMAIN ids |->
                                        [map |-> ids[j].map, table |-> ids[j].table,
                                         fields |-> <<>>]]]>>],
         Absent, Absent, Absent) : ids \in ListsUpTo(PubMappingIds, MaxPages)}

\* consolidated_metadata.json of Portal Turbo as consolidate() writes it with
\* no comparison documents, or missing
PubPtDocs ==
    {Absent} \cup
    {Pt_consolidated(
         [configs |-> [j \in DOMAIN ids |->
                          [config_name |-> ids[j].config_name,
                           final_table |-> ids[j].final_table, columns |-> <<>>]]],
         Absent, Absent, Absent) : ids \in ListsUpTo(PubConfigIds, MaxPages)}

\* the mappings in the order of the two loops over files and mappings, or
\* the tables in the order of the loop over tables
Publish_items(svc, doc) ==
    IF svc = "chama" THEN MappingRefs(doc.files) ELSE doc.tables

\* table_name or final_table of an item
Item_table(svc, item) ==
    IF svc = "chama" THEN item.mapping.table ELSE item.final_table

\* parent_page_title, on the day of the publication
Parent_title(svc) == <<svc, "Consolidated Metadata">>

\* page_title = f"{self.project_prefix} - {table_name}"
Page_title(svc, table) == <<svc, table>>

\* the validation of table_name, which only the Chama service has
Invalid_table(svc, table) == svc = "chama" /\ (table = "" \/ table = "unknown")

\* ConfluenceClient.get_page_by_title: the id of the page of the space with
\* that title, 0 for None
get_page_by_title(title) ==
    IF \E p \in DOMAIN wiki : wiki[p].title = title
    THEN CHOOSE p \in DOMAIN wiki :
            wiki[p].title = title /\ \A q \in DOMAIN wiki : wiki[q].title = title => p <= q
    ELSE 0

\* ConfluenceClient.get_page_by_title_and_parent: the id of the page with
\* that title whose immediate parent is parent_id, 0 for None
get_page_by_title_and_parent(title, parent_id) ==
    IF \E p \in DOMAIN wiki : wiki[p].title = title /\ wiki[p].parent = parent_id
    THEN CHOOSE p \in DOMAIN wiki :
            /\ wiki[p].title = title /\ wiki[p].parent = parent_id
            /\ \A q \in DOMAIN wiki :
                  (wiki[q].title = title /\ wiki[q].parent = parent_id) => p <= q
    ELSE 0

\* ConfluenceClient.create_page: the space after the POST ; the id of the
\* new page is the next free one
create_page(title, content, parent_id) ==
    Append(wiki, [title |-> title, parent |-> parent_id, body |-> content, version |-> 1])

\* ConfluenceClient.update_page without a new parent: the space after the PUT
update_page(page_id, title, content, version) ==
    [wiki EXCEPT ![page_id] =
        [title |-> title, parent |-> @.parent, body |-> content, version |-> version]]

\* the POST is accepted: the request goes through and the space has no page
\* of that title (Confluence refuses a second page of a title in a space)
Accepts(title, net_ok) == net_ok /\ get_page_by_title(title) = 0

\* time.sleep(1) of the Chama service, time.sleep(5) of the Portal Turbo one
Publish_delay(svc) == IF svc = "chama" THEN 1 ELSE 5

\* the delay after a page that was written, unless it is the last one
Sleep_after(svc, i, total) ==
    IF i < total THEN <<[do |-> "sleep", item |-> i, secs |-> Publish_delay(svc)]>>
    ELSE <<>>

\* the write request for item i (0 is the parent page)
Request(do, i) == [do |-> do, item |-> i, secs |-> 0]

\* the entry of results["pages"] of a page that was written
Page_written(svc, item, page_id, action) ==
    IF svc = "chama"
    THEN [success |-> TRUE, file |-> item.file_name, mapping |-> item.mapping.map,
          table |-> item.mapping.table,
          title |-> Page_title(svc, item.mapping.table),
          page_id |-> page_id, action |-> action]
    ELSE [success |-> TRUE, table |-> item.final_table,
          config_name |-> item.config_name,
          title |-> Page_title(svc, item.final_table),
          page_id |-> page_id, action |-> action]

\* the entry of results["pages"] of a page that was not written
Page_failed(svc, item, error_msg) ==
    IF svc = "chama"
    THEN [success |-> FALSE, file |-> item.file_name, mapping |-> item.mapping.map,
          table |-> item.mapping.table, error |-> error_msg]
    ELSE [success |-> FALSE, table |-> item.final_table,
          config_name |-> item.config_name, error |-> error_msg]

\* the entry of results["errors"] of a page that was not written
Page_error(svc, item, error_msg) ==
    IF svc = "chama"
    THEN [file |-> item.file_name, mapping |-> item.mapping.map,
          table |-> item.mapping.table, error |-> error_msg]
    ELSE [table |-> item.final_table, config_name |-> item.config_name,
          error |-> error_msg]

\* a variant of Publish_success that reports success whatever the pages
Publish_success_always(pages, total) == TRUE

\* results["success"] after the loop: false when fewer pages succeeded than
\* there are mappings or tables
Publish_success(pages, total) ==
    ~(Cardinality({i \in DOMAIN pages : pages[i].success}) < total)

\* publish_from_json returns before the loop
Publish_fails(svc) ==
    pub' = [NotPublishing EXCEPT !.at = "returned", !.svc = svc]

\* publish_from_json is called: the JSON is loaded, the parent page is
\* looked up and updated or created
PublishCall ==
    /\ project = "publish" /\ pub.at \in {"idle", "returned"} /\ run < MaxRuns
    /\ run' = run + 1
    /\ \E svc \in {"chama", "portal_turbo"}, lookup_ok \in BOOLEAN, net_ok \in BOOLEAN :
          LET doc == IF svc = "chama" THEN cons ELSE ptCons
              title == Parent_title(svc)
              existing_parent == IF lookup_ok THEN get_page_by_title(title) ELSE 0
          IN IF doc = Absent
             THEN /\ Publish_fails(svc) /\ UNCHANGED wiki /\ log' = <<>>
                  /\ last' = [op |-> "publish_from_json", status |-> "no_json"]
             ELSE IF Publish_items(svc, doc) = <<>>
                     /\ (svc = "portal_turbo" \/ doc.files = <<>>)
             THEN /\ Publish_fails(svc) /\ UNCHANGED wiki /\ log' = <<>>
                  /\ last' = [op |-> "publish_from_json", status |-> "nothing_found"]
             ELSE IF existing_parent # 0
             THEN /\ log' = <<Request("update", 0)>>
                  /\ IF net_ok
                     THEN /\ wiki' = update_page(existing_parent, title, <<svc, run' >>,
                                                 wiki[existing_parent].version + 1)
                          /\ pub' = [at |-> "loop", svc |-> svc, k |-> 0,
                                     items |-> Publish_items(svc, doc),
                                     parent_id |-> existing_parent,
                                     pages |-> <<>>, errors |-> <<>>, success |-> TRUE]
                          /\ last' = [op |-> "publish_from_json", status |-> "parent_updated"]
                     ELSE /\ Publish_fails(svc) /\ UNCHANGED wiki
                          /\ last' = [op |-> "publish_from_json", status |-> "raised"]
             ELSE /\ log' = <<Request("create", 0)>>
                  /\ IF Accepts(title, net_ok)
                     THEN /\ wiki' = create_page(title, <<svc, run' >>, 0)
                          /\ pub' = [at |-> "loop", svc |-> svc, k |-> 0,
                                     items |-> Publish_items(svc, doc),
                                     parent_id |-> Len(wiki) + 1,
                                     pages |-> <<>>, errors |-> <<>>, success |-> TRUE]
                          /\ last' = [op |-> "publish_from_json", status |-> "parent_created"]
                     ELSE /\ Publish_fails(svc) /\ UNCHANGED wiki
                          /\ last' = [op |-> "publish_from_json", status |-> "raised"]
    /\ UNCHANGED <<chamaVars, ctVars, ptVars, project, normVars, pc, stamp, outcome, trace>>

\* one turn of the loop over the mappings or tables: the page is created,
\* or updated when the creation fails and the page is under the parent
PublishPage ==
    /\ project = "publish" /\ pub.at = "loop" /\ pub.k < Len(pub.items)
    /\ \E net_ok \in BOOLEAN, lookup_ok \in BOOLEAN, update_ok \in BOOLEAN :
          LET svc == pub.svc
              i == pub.k + 1
              total == Len(pub.items)
              item == pub.items[i]
              page_title == Page_title(svc, Item_table(svc, item))
              wiki_content == <<svc, run, i>>
              existing_page ==
                  IF lookup_ok
                  THEN get_page_by_title_and_parent(page_title, pub.parent_id)
                  ELSE 0
          IN IF Invalid_table(svc, Item_table(svc, item))
             THEN /\ pub' = [pub EXCEPT
                               !.k = i,
                               !.errors = Append(@, Page_error(svc, item, "invalid_table")),
                               !.pages = Append(@, Page_failed(svc, item, "invalid_table"))]
                  /\ UNCHANGED <<wiki, log>>
                  /\ last' = [op |-> "publish_page", status |-> "skipped"]
             ELSE IF Accepts(page_title, net_ok)
             THEN /\ wiki' = create_page(page_title, wiki_content, pub.parent_id)
                  /\ pub' = [pub EXCEPT
                               !.k = i,
                               !.pages = Append(@, Page_written(svc, item, Len(wiki) + 1,
                                                                "created"))]
                  /\ log' = log \o <<Request("create", i)>> \o Sleep_after(svc, i, total)
                  /\ last' = [op |-> "publish_page", status |-> "created"]
             ELSE IF existing_page # 0 /\ update_ok
             THEN /\ wiki' = update_page(existing_page, page_title, wiki_content,
                                         wiki[existing_page].version + 1)
                  /\ pub' = [pub EXCEPT
                               !.k = i,
                               !.pages = Append(@, Page_written(svc, item, existing_page,
                                                                "updated"))]
                  /\ log' = log \o <<Request("create", i), Request("update", i)>>
                                \o Sleep_after(svc, i, total)
                  /\ last' = [op |-> "publish_page", status |-> "updated"]
             ELSE /\ UNCHANGED wiki
                  /\ pub' = [pub EXCEPT
                               !.k = i,
                               !.errors = Append(@, Page_error(svc, item, "create_failed")),
                               !.pages = Append(@, Page_failed(svc, item, "create_failed"))]
                  /\ log' = log \o <<Request("create", i)>>
                                \o (IF existing_page # 0
                                    THEN <<Request("update", i)>> ELSE <<>>)
                  /\ last' = [op |-> "publish_page", status |-> "failed"]
    /\ UNCHANGED <<chamaVars, ctVars, ptVars, project, normVars, pc, run, stamp, outcome,
                   trace>>

\* after the loop: the success flag and the return of the results
PublishReturn ==
    /\ project = "publish" /\ pub.at = "loop" /\ pub.k = Len(pub.items)
    /\ pub' = [pub EXCEPT !.at = "returned",
                          !.success = Publish_success(pub.pages, Len(pub.items))]
    /\ last' = [op |-> "publish_from_json", status |-> "returned"]
    /\ UNCHANGED <<chamaVars, ctVars, ptVars, project, normVars, pc, run, stamp, outcome,
                   trace, wiki, log>>

\* the consolidated document of one of the two projects is on disk
InitPublish ==
    /\ \/ cons \in PubChamaDocs /\ ptCons = Absent
       \/ cons = Absent /\ ptCons \in PubPtDocs
    /\ etl = Absent /\ s3 = Absent /\ sys = Absent /\ s3cmp = Absent /\ syscmp = Absent
    /\ ptEtl = Absent /\ ptS3 = Absent /\ ptS3cmp = Absent /\ ptSyscmp = Absent
    /\ CtAbsent
    /\ project = "publish" /\ last = NoOp
    /\ NormIdle /\ PipeIdle /\ PubIdle

NextPublish == PublishCall \/ PublishPage \/ PublishReturn

SpecPublish == InitPublish /\ [][NextPublish]_vars

(***************************************************************************)
(* Properties of the comparators                                           *)
(***************************************************************************)
Range(s) == {s[i] : i \in DOMAIN s}

\* lower-cased and trimmed
Canon(name) == Strip(Lower(name))

\* the entry of a list of files that a lookup by key finds: the last one
LastWith(files, key, k) ==
    files[CHOOSE i \in DOMAIN files :
            /\ files[i][key] = k
            /\ \A j \in DOMAIN files : files[j][key] = k => j <= i]

HasKey(files, key, k) == \E i \in DOMAIN files : files[i][key] = k

\* normalized non-empty source names of the fields of file k of a document
NamesOfFile(doc, k) ==
    IF HasKey(FilesOf(doc), "name", k)
    THEN {Canon(f.from_santander) :
            f \in {g \in Range(AllFields(LastWith(FilesOf(doc), "name", k).mappings)) :
                      g.from_santander # <<>>}}
    ELSE {}

\* normalized non-empty NameTemp names of the columns of configuration k
CtNamesOfConfig(doc, k) ==
    IF HasKey(ConfigsOf(doc), "config_name", k)
    THEN {Canon(c.NameTemp) :
            c \in {g \in Range(LastWith(ConfigsOf(doc), "config_name", k).columns) :
                      g.NameTemp # <<>>}}
    ELSE {}

\* normalized names of the columns of S3 file k
CtNamesOfS3File(doc, k) ==
    IF HasKey(FilesOf(doc), "base_name", k)
    THEN {Canon(c.name) : c \in Range(LastWith(FilesOf(doc), "base_name", k).columns)}
    ELSE {}

PairwiseDisjoint(a, b, c) == a \cap b = {} /\ a \cap c = {} /\ b \cap c = {}

ChamaPartition(c) ==
    LET inBoth == {Canon(x.from_santander) : x \in Range(c.fields_in_both)}
        onlyS3 == {Canon(x.from_santander) : x \in Range(c.fields_only_in_s3)}
        onlyEtl == {Canon(x.from_santander) : x \in Range(c.fields_only_in_etl)}
    IN /\ PairwiseDisjoint(inBoth, onlyS3, onlyEtl)
       /\ Len(c.fields_in_both) + Len(c.fields_only_in_s3) + Len(c.fields_only_in_etl)
            = Cardinality(NamesOfFile(etl, c.file_name) \cup NamesOfFile(s3, c.file_name))

CtPartition(c) ==
    LET inBoth == {Canon(x.s3_name) : x \in Range(c.columns_in_both)}
        onlyS3 == {Canon(x) : x \in Range(c.columns_only_in_s3)}
        onlyEtl == {Canon(x.name_temp) : x \in Range(c.columns_only_in_etl)}
    IN /\ PairwiseDisjoint(inBoth, onlyS3, onlyEtl)
       /\ Len(c.columns_in_both) + Len(c.columns_only_in_s3) + Len(c.columns_only_in_etl)
            = Cardinality(CtNamesOfConfig(ctEtl, c.base_name)
                          \cup CtNamesOfS3File(ctS3, c.base_name))

UsageRecordOf(doc, table) == LastWith(ItemsOf(doc), "tabela", table)

HasUsageRecord(doc, table) == table # "" /\ HasKey(ItemsOf(doc), "tabela", table)

\* the internal names a usage record lists as unused, as written
ListedUnused(rec) ==
    LET enc == rec.colunas_nao_utilizadas
    IN CASE enc.kind = "dict" -> {x.v : x \in Range(enc.items)} \ {NoneVal}
         [] enc.kind = "list" -> Range(enc.items) \ {NoneVal}
         [] OTHER -> {}

\* (file, mapping) positions of a document
MappingIdx(files) ==
    UNION {{<<i, j>> : j \in DOMAIN files[i].mappings} : i \in DOMAIN files}

\* C2: in the Chama usage comparison a field is flagged used exactly when no
\* unused column listed for its mapping's table equals its internal name
\* after lower-casing and trimming both.
C2_UsedIffNotListed ==
    syscmp # Absent =>
        \A p \in MappingIdx(syscmp.files) :
            LET m == syscmp.files[p[1]].mappings[p[2]]
            IN HasUsageRecord(sys, m.table) =>
                  \A k \in DOMAIN m.fields :
                      m.fields[k].is_used_in_system
                          <=> ~(\E u \in ListedUnused(UsageRecordOf(sys, m.table)) :
                                   Canon(u) = Canon(m.fields[k].laborit))

\* a dict-encoded usage record under which one field is unused although its
\* internal name is written differently, and another field is used
C2_Witness ==
    /\ syscmp # Absent
    /\ \E p \in MappingIdx(syscmp.files) :
          LET m == syscmp.files[p[1]].mappings[p[2]]
          IN /\ HasUsageRecord(sys, m.table)
             /\ UsageRecordOf(sys, m.table).colunas_nao_utilizadas.kind = "dict"
             /\ \E k \in DOMAIN m.fields :
                   /\ ~m.fields[k].is_used_in_system
                   /\ m.fields[k].laborit \notin ListedUnused(UsageRecordOf(sys, m.table))
             /\ \E k \in DOMAIN m.fields : m.fields[k].is_used_in_system

\* C3: a mapping whose target table has no usage record has
\* has_system_data = false, every field flagged not used, used_count = 0 and
\* unused_count = total_fields.
C3_NoSystemDataMeansUnused ==
    /\ syscmp # Absent =>
          \A p \in MappingIdx(syscmp.files) :
              LET m == syscmp.files[p[1]].mappings[p[2]]
              IN ~HasUsageRecord(sys, m.table) =>
                    /\ ~m.has_system_data
                    /\ \A k \in DOMAIN m.fields : ~m.fields[k].is_used_in_system
                    /\ m.statistics.used_count = 0
                    /\ m.statistics.unused_count = m.statistics.total_fields
    /\ ctSyscmp # Absent =>
          \A i \in DOMAIN ctSyscmp.comparisons :
              LET c == ctSyscmp.comparisons[i]
              IN ~HasUsageRecord(ctSys, c.final_table) =>
                    /\ ~c.has_system_data
                    /\ c.columns_used_in_system = <<>>
                    /\ c.columns_unused_in_system_count = c.etl_columns_count

\* the other encoding of the same unused columns
TwinEncoding(enc) ==
    CASE enc.kind = "list" -> DictOfList(enc.items)
      [] enc.kind = "dict" -> ListEncoding([i \in DOMAIN enc.items |-> enc.items[i].v])
      [] OTHER -> enc

TwinRecord(rec) ==
    [tabela |-> rec.tabela, colunas_nao_utilizadas |-> TwinEncoding(rec.colunas_nao_utilizadas)]

TwinDoc(doc) == [items |-> [i \in DOMAIN doc.items |-> TwinRecord(doc.items[i])]]

\* C4: a flat list of internal names and a dict with the same values give
\* the same unused set, and the usage comparison gives the same flags and
\* counts under either encoding.
C4_EncodingsEquivalent ==
    (project = "chama" /\ syscmp # Absent) =>
        /\ \A r \in Range(sys.items) :
              get_unused_columns(r) = get_unused_columns(TwinRecord(r))
        /\ ChamaSys_compare_metadatas(etl, TwinDoc(sys), TwinDoc(sys)).files = syscmp.files

\* a list-encoded usage record that makes a field unused
C4_Witness ==
    /\ syscmp # Absent
    /\ \E p \in MappingIdx(syscmp.files) :
          LET m == syscmp.files[p[1]].mappings[p[2]]
          IN /\ HasUsageRecord(sys, m.table)
             /\ UsageRecordOf(sys, m.table).colunas_nao_utilizadas.kind = "list"
             /\ \E k \in DOMAIN m.fields :
                   /\ ~m.fields[k].is_used_in_system
                   /\ m.fields[k].laborit \notin ListedUnused(UsageRecordOf(sys, m.table))

\* number of positions of s whose element satisfies the test
CountOf(s, x) == Cardinality({i \in DOMAIN s : s[i] = x})

\* a column record of the usage comparison without its flag
CtColumnOf(x) ==
    [NameFile |-> x.name_file, NameTemp |-> x.name_temp, TypeFile |-> x.type_file,
     TypeTemp |-> x.type_temp, Key |-> x.is_key]

ChamaCountsAddUp(m, e) ==
    /\ Len(m.fields) = Len(e.fields)
    /\ m.statistics.total_fields = Len(e.fields)
    /\ m.statistics.used_count =
          Cardinality({k \in DOMAIN m.fields : m.fields[k].is_used_in_system})
    /\ m.statistics.unused_count =
          Cardinality({k \in DOMAIN m.fields : ~m.fields[k].is_used_in_system})
    /\ m.statistics.used_count + m.statistics.unused_count = m.statistics.total_fields

CtColumnsPartitioned(c, cfg) ==
    LET used == [i \in DOMAIN c.columns_used_in_system |->
                    CtColumnOf(c.columns_used_in_system[i])]
        unused == [i \in DOMAIN c.columns_unused_in_system |->
                      CtColumnOf(c.columns_unused_in_system[i])]
    IN /\ \A x \in Range(c.columns_used_in_system) : x.is_used_in_system
       /\ \A x \in Range(c.columns_unused_in_system) : ~x.is_used_in_system
       /\ Range(used) \cap Range(unused) = {}
       /\ \A col \in Range(cfg.columns) \cup Range(used) \cup Range(unused) :
              CountOf(used, col) + CountOf(unused, col) = CountOf(cfg.columns, col)
       /\ c.columns_used_in_system_count = Len(used)
       /\ c.columns_unused_in_system_count = Len(unused)
       /\ c.etl_columns_count = Len(cfg.columns)
       /\ Len(used) + Len(unused) = c.etl_columns_count

\* C5: every field of a mapping is counted exactly once, as used or as
\* unused: used_count + unused_count = total_fields = number of ETL fields;
\* in Consultor Turbo the used and unused lists partition the ETL columns.
C5_UsageTotality ==
    /\ syscmp # Absent =>
          \A p \in MappingIdx(syscmp.files) :
              ChamaCountsAddUp(syscmp.files[p[1]].mappings[p[2]],
                               etl.files[p[1]].mappings[p[2]])
    /\ ctSyscmp # Absent =>
          \A i \in DOMAIN ctSyscmp.comparisons :
              CtColumnsPartitioned(ctSyscmp.comparisons[i],
                  LastWith(ctEtl.configs, "config_name",
                           ctSyscmp.comparisons[i].config_name))

\* a mapping with a used and an unused field
C5_Witness ==
    /\ syscmp # Absent
    /\ \E p \in MappingIdx(syscmp.files) :
          LET m == syscmp.files[p[1]].mappings[p[2]]
          IN m.statistics.used_count >= 1 /\ m.statistics.unused_count >= 1

\* the keys of a list of records, in order
KeysOf(s, key) == [i \in DOMAIN s |-> s[i][key]]

NoDuplicates(s) == \A i, j \in DOMAIN s : s[i] = s[j] => i = j

\* C10: the ETL-vs-S3 comparison has exactly one record per file key of the
\* union of the keys of the two documents; a key of one document only has
\* the other side's field count at zero.
C10_OneRecordPerUnionKey ==
    /\ s3cmp # Absent =>
          LET keys == KeysOf(s3cmp.comparisons, "file_name")
          IN /\ NoDuplicates(keys)
             /\ Range(keys) = Range(KeysOf(etl.files, "name")) \cup Range(KeysOf(s3.files, "name"))
             /\ \A c \in Range(s3cmp.comparisons) :
                   /\ ~HasKey(etl.files, "name", c.file_name) => c.etl_fields_count = 0
                   /\ ~HasKey(s3.files, "name", c.file_name) => c.s3_fields_count = 0
    /\ ctS3cmp # Absent =>
          LET keys == KeysOf(ctS3cmp.comparisons, "base_name")
          IN /\ NoDuplicates(keys)
             /\ Range(keys) = Range(KeysOf(ctEtl.configs, "config_name"))
                                \cup Range(KeysOf(ctS3.files, "base_name"))
             /\ \A c \in Range(ctS3cmp.comparisons) :
                   ~HasKey(ctEtl.configs, "config_name", c.base_name)
                       => c.etl_columns_count = 0

(***************************************************************************)
(* Properties of the consolidators                                         *)
(***************************************************************************)
\* consolidate() of Chama ran last and wrote its document
ChamaConsolidated == last = [op |-> "chama_consolidate", status |-> "written"]

\* consolidate() of Portal Turbo ran last and wrote its document
PtConsolidated == last = [op |-> "pt_consolidate", status |-> "written"]

\* the consolidated Chama document has the files, mappings and fields of the
\* ETL document, position by position, with their names and types
ChamaConserved ==
    /\ Len(cons.files) = Len(etl.files)
    /\ \A i \in DOMAIN etl.files :
        /\ cons.files[i].name = etl.files[i].name
        /\ Len(cons.files[i].mappings) = Len(etl.files[i].mappings)
        /\ \A j \in DOMAIN etl.files[i].mappings :
            LET m == etl.files[i].mappings[j]
                c == cons.files[i].mappings[j]
            IN /\ c.map = m.map
               /\ c.table = m.table
               /\ Len(c.fields) = Len(m.fields)
               /\ \A k \in DOMAIN m.fields :
                    /\ c.fields[k].from_santander = m.fields[k].from_santander
                    /\ c.fields[k].laborit = m.fields[k].laborit
                    /\ c.fields[k].type = m.fields[k].type

\* the consolidated Portal Turbo document has the tables of the ETL
\* document in the same order, each with as many columns
PtShapeConserved ==
    /\ ptCons.total_tables = Len(ptEtl.configs)
    /\ Len(ptCons.tables) = Len(ptEtl.configs)
    /\ \A i \in DOMAIN ptEtl.configs :
          /\ ptCons.tables[i].config_name = ptEtl.configs[i].config_name
          /\ ptCons.tables[i].final_table = ptEtl.configs[i].final_table
          /\ Len(ptCons.tables[i].columns) = Len(ptEtl.configs[i].columns)

\* (table, column) positions of the Portal Turbo ETL document
PtColumnIdx ==
    UNION {{<<i, k>> : k \in DOMAIN ptEtl.configs[i].columns} : i \in DOMAIN ptEtl.configs}

\* every consolidated column has the names and types of the ETL column at
\* its position, as written
PtNamesExact ==
    \A p \in PtColumnIdx :
        LET c == ptCons.tables[p[1]].columns[p[2]]
            g == ptEtl.configs[p[1]].columns[p[2]]
        IN /\ c.from_santander = g.NameTemp
           /\ c.from_etl = g.NameFile
           /\ c.type_santander = g.TypeTemp
           /\ c.type_etl = g.TypeFile
           /\ c.is_key = g.Key

\* every consolidated column has the names and types of the ETL column at
\* its position, an empty name or type being written as null
PtNamesEmptyAsNull ==
    \A p \in PtColumnIdx :
        LET c == ptCons.tables[p[1]].columns[p[2]]
            g == ptEtl.configs[p[1]].columns[p[2]]
        IN /\ c.from_santander = (IF g.NameTemp = <<>> THEN NoneVal ELSE g.NameTemp)
           /\ c.from_etl = (IF g.NameFile = <<>> THEN NoneVal ELSE g.NameFile)
           /\ c.type_santander = (IF g.TypeTemp = "" THEN NoneStr ELSE g.TypeTemp)
           /\ c.type_etl = (IF g.TypeFile = "" THEN NoneStr ELSE g.TypeFile)
           /\ c.is_key = g.Key

\* C6 as stated: the consolidated document has the files, mappings and
\* fields of the ETL document in the same number and order, each field with
\* the source name, internal name and type of the ETL field at its position;
\* the same for the tables and columns of Portal Turbo.
C6_ConservationExact ==
    /\ cons # Absent => ChamaConserved
    /\ (ptCons # Absent /\ ptEtl # Absent) => (PtShapeConserved /\ PtNamesExact)

\* C6: the consolidated document has the files, mappings and fields of the
\* ETL document in the same number and order, each field with the source
\* name, internal name and type of the ETL field at its position; Portal
\* Turbo keeps the tables and columns in number and order, and writes each
\* column's names and types as they are except that an empty one becomes
\* null.
C6_Conservation ==
    /\ cons # Absent => ChamaConserved
    /\ (ptCons # Absent /\ ptEtl # Absent) => (PtShapeConserved /\ PtNamesEmptyAsNull)

\* a consolidated Portal Turbo table with two different columns, one of
\* them without a source name
C6_Witness ==
    /\ PtConsolidated /\ ptEtl # Absent
    /\ \E i \in DOMAIN ptEtl.configs :
          LET cols == ptEtl.configs[i].columns
          IN /\ Len(cols) >= 2
             /\ cols[1] # cols[2]
             /\ \E k \in DOMAIN cols : cols[k].NameTemp = <<>>
             /\ \E k \in DOMAIN cols : cols[k].NameTemp # <<>>
             /\ Len(ptCons.tables[i].columns) = Len(cols)

\* the source names, as written, of the fields_in_both and fields_only_in_s3
\* entries of the comparison records of a file
S3SideNames(file_name) ==
    UNION {{x.from_santander : x \in Range(c.fields_in_both)}
           \cup {x.from_santander : x \in Range(c.fields_only_in_s3)} :
              c \in {r \in Range(ComparisonsOf(s3cmp)) : r.file_name = file_name}}

\* C7: after consolidate(), a field's exists_in_s3 is true exactly when its
\* source name, lower-cased and trimmed, is the lower-cased and trimmed
\* source name of an entry of fields_in_both or fields_only_in_s3 of the
\* comparison record of the field's file.
C7_ExistsInS3IffCompared ==
    ChamaConsolidated =>
        \A p \in MappingIdx(cons.files) :
            LET m == cons.files[p[1]].mappings[p[2]]
            IN \A k \in DOMAIN m.fields :
                  m.fields[k].exists_in_s3
                      <=> Canon(m.fields[k].from_santander)
                             \in {Canon(n) : n \in S3SideNames(cons.files[p[1]].name)}

\* comparison then consolidation: a field found in S3 although no entry of
\* the comparison record writes its name as the ETL document does, next to
\* a field that is not in S3
C7_Witness ==
    /\ ChamaConsolidated /\ s3cmp # Absent
    /\ \E p \in MappingIdx(cons.files) :
          LET m == cons.files[p[1]].mappings[p[2]]
          IN /\ \E k \in DOMAIN m.fields :
                   /\ m.fields[k].exists_in_s3
                   /\ m.fields[k].from_santander
                        \notin S3SideNames(cons.files[p[1]].name)
             /\ \E k \in DOMAIN m.fields : ~m.fields[k].exists_in_s3

\* C8: when the storage comparison document is missing or has no
\* comparisons, the consolidated document has exists_in_s3 false for every
\* field and has_s3_file false for every mapping, whatever the other
\* documents hold.
C8_AbsenceSafe ==
    /\ (ChamaConsolidated /\ ComparisonsOf(s3cmp) = <<>>) =>
          \A p \in MappingIdx(cons.files) :
              LET m == cons.files[p[1]].mappings[p[2]]
              IN /\ ~m.s3_comparison.has_s3_file
                 /\ \A k \in DOMAIN m.fields : ~m.fields[k].exists_in_s3
    /\ (PtConsolidated /\ ComparisonsOf(ptS3cmp) = <<>>) =>
          \A i \in DOMAIN ptCons.tables :
              /\ ~ptCons.tables[i].s3_comparison.has_s3_file
              /\ \A k \in DOMAIN ptCons.tables[i].columns :
                    ~ptCons.tables[i].columns[k].s3_info.exists_in_s3

\* C9: a consolidate() that finds no ETL document aborts and leaves the
\* consolidated document as it was, in every product line; a consolidate()
\* that finds the ETL document writes a consolidated document.
C9_AbortsWithoutEtl ==
    [][/\ (etl = Absent /\ last'.op = "chama_consolidate")
             => (last'.status = "aborted" /\ cons' = cons)
       /\ (ptEtl = Absent /\ last'.op = "pt_consolidate")
             => (last'.status = "aborted" /\ ptCons' = ptCons)
       /\ (etl # Absent /\ last'.op = "chama_consolidate")
             => (last'.status = "written" /\ cons' # Absent)
       /\ (ptEtl # Absent /\ last'.op = "pt_consolidate")
             => (last'.status = "written" /\ ptCons' # Absent)]_vars


(***************************************************************************)
(* Further properties of the comparators                                   *)
(***************************************************************************)
\* the record of key k has nothing on the S3 side and lists every name of
\* names among the entries only in ETL
ChamaEtlOnlyRecord(c, names) ==
    /\ c.fields_in_both = <<>>
    /\ c.fields_only_in_s3 = <<>>
    /\ names \subseteq {Canon(x.from_santander) : x \in Range(c.fields_only_in_etl)}

CtEtlOnlyRecord(c, names) ==
    /\ c.columns_in_both = <<>>
    /\ c.columns_only_in_s3 = <<>>
    /\ names \subseteq {Canon(x.name_temp) : x \in Range(c.columns_only_in_etl)}

\* ETL-only keys in the Chama comparison
EtlOnlyKeysChama ==
    s3cmp # Absent =>
        /\ \A k \in Range(KeysOf(etl.files, "name")) \ Range(KeysOf(s3.files, "name")) :
              /\ \E c \in Range(s3cmp.comparisons) :
                    c.file_name = k /\ ChamaEtlOnlyRecord(c, NamesOfFile(etl, k))
              /\ k \in Range(KeysOf(s3cmp.etl_files_without_s3, "file_name"))
        /\ \A w \in Range(s3cmp.etl_files_without_s3) :
              /\ HasKey(etl.files, "name", w.file_name)
              /\ ~HasKey(s3.files, "name", w.file_name)

\* ETL-only keys in the Consultor Turbo comparison
EtlOnlyKeysCt ==
    ctS3cmp # Absent =>
        /\ \A k \in Range(KeysOf(ctEtl.configs, "config_name"))
                        \ Range(KeysOf(ctS3.files, "base_name")) :
              /\ \E c \in Range(ctS3cmp.comparisons) :
                    c.base_name = k /\ CtEtlOnlyRecord(c, CtNamesOfConfig(ctEtl, k))
              /\ k \in Range(KeysOf(ctS3cmp.etl_configs_without_s3, "config_name"))
        /\ \A w \in Range(ctS3cmp.etl_configs_without_s3) :
              /\ HasKey(ctEtl.configs, "config_name", w.config_name)
              /\ ~HasKey(ctS3.files, "base_name", w.config_name)

\* C11: a file key of the ETL document that the storage document lacks has
\* a comparison record with fields_in_both and fields_only_in_s3 empty and
\* every (named) ETL field of the file in fields_only_in_etl, and is listed in
\* the etl-without-storage list; every key of that list is an ETL key
\* without storage entry.
C11_EtlOnlyKeyRecord == EtlOnlyKeysChama /\ EtlOnlyKeysCt


(***************************************************************************)
(* Properties of the normalizers                                           *)
(***************************************************************************)
\* u and v are equal up to letter case
SameUpToCase(u, v) ==
    /\ Len(u) = Len(v)
    /\ \A i \in DOMAIN u : u[i] = v[i] \/ {u[i], v[i]} = {"A", "a"}

\* what is left of y after taking away some leading and some trailing
\* whitespace
Cores(y) ==
    {SubSeq(y, p[1], p[2]) :
        p \in {q \in (1..(Len(y) + 1)) \X (0..Len(y)) :
                  /\ q[2] >= q[1] - 1
                  /\ \A k \in (1..(q[1] - 1)) \cup ((q[2] + 1)..Len(y)) : IsSpace(y[k])}}

\* x and y differ only in letter case and in leading and trailing
\* whitespace
DifferOnlyInCaseAndPadding(x, y) ==
    \E u \in Cores(x), v \in Cores(y) : SameUpToCase(u, v)

\* C12: normalizing a string twice gives what normalizing it once gives,
\* and two strings that differ only in letter case and in leading and
\* trailing whitespace have the same normal form (" A " and "a" both give
\* "a").
C12_NormalizeIdempotent ==
    (normOut # NotCalled /\ nameIn # NoneVal) =>
        /\ \A n \in Normalizers : normOut.twice[n] = normOut.once[n]
        /\ \A y \in Names :
              DifferOnlyInCaseAndPadding(nameIn, y) =>
                  \A n \in Normalizers : Normalized(y)[n] = normOut.once[n]
        /\ nameIn = <<" ", "A", " ">> =>
              \A n \in Normalizers :
                  normOut.once[n] = <<"a">> /\ Normalized(<<"a">>)[n] = <<"a">>

\* the name " A " went through the normalizers
C12_Witness ==
    /\ normOut # NotCalled
    /\ nameIn = <<" ", "A", " ">>
    /\ normOut.once.chama_s3 = <<"a">>
    /\ normOut.once.chama_system = <<"a">>

\* C13: every normalizer returns the empty string for a null or empty name
\* instead of raising, and all normalizers return the same value for the
\* same input, null included.
C13_NormalizersAgree ==
    normOut # NotCalled =>
        /\ (nameIn = NoneVal \/ nameIn = <<>>) =>
              \A n \in Normalizers : normOut.once[n] = <<>>
        /\ \A n, m \in Normalizers : normOut.once[n] = normOut.once[m]

(***************************************************************************)
(* Properties of the pipeline                                              *)
(***************************************************************************)
\* main is at the comparison of the storage document with the ETL document
\* of the project, and one of the two is absent or has no file entries
ChamaNothingToCompare ==
    /\ AtStage(3) /\ project_name = "chama"
    /\ (FilesOf(s3) = <<>> \/ FilesOf(etl) = <<>>)

CtNothingToCompare ==
    /\ AtStage(3) /\ project_name = "consultor_turbo"
    /\ (FilesOf(ctS3) = <<>> \/ ConfigsOf(ctEtl) = <<>>)

\* C14: when either source document of the comparison of ETL with storage
\* is absent or has no file entries, the comparison is skipped as a no-op:
\* nothing is raised, the comparison document on disk (none, or the one an
\* earlier run left) stays as it was, and main goes on to its next stage.
C14_SkipIsNoOp ==
    [][/\ ChamaNothingToCompare =>
            /\ s3cmp' = s3cmp
            /\ last' = [op |-> "chama_s3_compare", status |-> "skipped"]
            /\ pc' = [pc EXCEPT !.stage = 4]
       /\ CtNothingToCompare =>
            /\ ctS3cmp' = ctS3cmp
            /\ last' = [op |-> "ct_s3_compare", status |-> "skipped"]
            /\ pc' = [pc EXCEPT !.stage = 4]]_vars

\* a comparison was skipped for a storage document without file entries,
\* the comparison document of an earlier run is on disk and main is at the
\* next stage
C14_Witness ==
    /\ last = [op |-> "chama_s3_compare", status |-> "skipped"]
    /\ s3 # Absent /\ FilesOf(s3) = <<>>
    /\ s3cmp # Absent /\ stamp.s3cmp < run
    /\ AtStage(4) /\ project_name = "chama"

\* main is inside the body of its loop
InProject == project = "run_app" /\ pc.idx \in DOMAIN projects

\* a stage of main can be taken
StageEnabled ==
    ENABLED (ProjectConfig \/ EtlStage \/ S3Stage \/ S3CompareStage
             \/ SysCompareStage \/ ConsolidateStage \/ PublishStage)

\* C15: batch isolation in main.  Whatever stage of a project fails, the
\* loop goes to the next project of [consultor_turbo, portal_turbo, chama]:
\* while main is at a project, every earlier project has been started and
\* left (failed, without configurations or completed) and no later one has
\* been touched, main always has a stage to take, and at the end of the
\* loop every project of the list has been started.
C15_BatchIsolation ==
    /\ InProject =>
          /\ StageEnabled
          /\ \A j \in DOMAIN projects :
                IF j < pc.idx
                THEN outcome[j] \in {"failed", "no_configs", "completed"}
                ELSE outcome[j] = "none"
    /\ (project = "run_app" /\ pc.idx = Len(projects) + 1) =>
          /\ ENABLED MainEnd
          /\ \A j \in DOMAIN projects :
                outcome[j] \in {"failed", "no_configs", "completed"}

\* the first two projects failed, the third went through all its stages and
\* main is at its end
C15_Witness ==
    /\ project = "run_app" /\ pc.idx = Len(projects) + 1
    /\ outcome = <<"failed", "failed", "completed">>
    /\ stamp.cons = run

\* a document as the current run produced it: nothing when the document on
\* disk was written by an earlier run
ProducedNow(doc, written_in) == IF written_in = run THEN doc ELSE Absent

\* C16: recomputation from scratch.  Over any sequence of runs of main
\* between which the sources change or disappear, the consolidated document
\* a run writes for Chama is the one derived from the documents produced
\* during that run; from_santander_metadata.json, s3_vs_etl_metadata.json
\* and etl_vs_system_metadata.json left by an earlier run contribute
\* nothing to it.
C16_RecomputedFromScratch ==
    last = [op |-> "chama_consolidate", status |-> "written"] =>
        cons = Chama_consolidated(ProducedNow(etl, stamp.etl),
                                  ProducedNow(s3, stamp.s3),
                                  ProducedNow(s3cmp, stamp.s3cmp),
                                  ProducedNow(syscmp, stamp.syscmp))

(***************************************************************************)
(* Properties of the reconcilers as functions                              *)
(***************************************************************************)
\* C17: the reconcilers are pure functions of their document arguments.
\* Once the usage comparison of Chama has been computed from the ETL
\* document and the usage document, a call of compare_metadatas with the
\* same two arguments returns the same flags, has_system_data values and
\* counts whatever usage file is on disk at the time of the call.
C17_ReconcilersPure ==
    (project = "chama" /\ last = [op |-> "chama_sys_compare", status |-> "written"]) =>
        \A disk \in SysDocs \cup {Absent} :
            ChamaSys_compare_metadatas(etl, sys, disk) = syscmp

(***************************************************************************)
(* Properties of the usage comparison                                      *)
(***************************************************************************)
\* the tables the mappings of the ETL document load
EtlTables ==
    LET refs == MappingRefs(FilesOf(etl))
    IN {refs[i].mapping.table : i \in DOMAIN refs}

\* a well-formed usage record of table t with an empty unused list
WellFormedEmpty(t) == [tabela |-> t, colunas_nao_utilizadas |-> ListEncoding(<<>>)]

\* the usage comparison of the ETL document with the usage document in
\* which record i is replaced by rec
ComparedWith(i, rec) ==
    LET twin == [items |-> [sys.items EXCEPT ![i] = rec]]
    IN ChamaSys_compare_metadatas(etl, twin, twin)

UsageCompared == project = "chama" /\ last = [op |-> "chama_sys_compare", status |-> "written"]

\* a usage record dropped for its empty table key gives another comparison
\* than a well-formed record of a table of the ETL document
DroppedRecordVisible ==
    UsageCompared =>
        \A i \in DOMAIN sys.items :
            sys.items[i].tabela = "" =>
                \A t \in EtlTables : syscmp # ComparedWith(i, WellFormedEmpty(t))

\* an unused-columns value that is neither a dict nor a list gives another
\* comparison than a well-formed record with an empty unused list
DefaultedTypeVisible ==
    UsageCompared =>
        \A i \in DOMAIN sys.items :
            (/\ sys.items[i].tabela \in EtlTables
             /\ sys.items[i].colunas_nao_utilizadas.kind = "other") =>
                syscmp # ComparedWith(i, WellFormedEmpty(sys.items[i].tabela))

\* C18: every skip, default or degradation of the usage comparison is
\* visible in its output: the comparison obtained with a usage record
\* dropped for an empty table key, and the one obtained with an
\* unused-columns value of unexpected type, each differ from the comparison
\* obtained with a well-formed usage record whose unused list is empty.
C18_DegradationsVisible == DroppedRecordVisible /\ DefaultedTypeVisible

(***************************************************************************)
(* Properties of the consolidated flags and counts                         *)
(***************************************************************************)
\* is_used_in_system that the usage comparison on disk recorded for field k
\* of mapping j of file i ; FALSE when it has no such record
RecordedUsage(i, j, k) ==
    LET files == FilesOf(syscmp)
    IN IF i \in DOMAIN files
          /\ j \in DOMAIN files[i].mappings
          /\ k \in DOMAIN files[i].mappings[j].fields
       THEN files[i].mappings[j].fields[k].is_used_in_system
       ELSE FALSE

\* no two files of the ETL document have the same name, no two mappings of
\* a file the same map name, no two fields of a mapping the same normalized
\* source name
EtlKeysUnique ==
    LET files == FilesOf(etl)
    IN /\ \A a, b \in DOMAIN files : files[a].name = files[b].name => a = b
       /\ \A i \in DOMAIN files :
            LET mappings == files[i].mappings
            IN /\ \A a, b \in DOMAIN mappings :
                    mappings[a].map = mappings[b].map => a = b
               /\ \A j \in DOMAIN mappings :
                    \A a, b \in DOMAIN mappings[j].fields :
                        Cons_normalize_name(mappings[j].fields[a].from_santander)
                          = Cons_normalize_name(mappings[j].fields[b].from_santander)
                        => a = b

\* with unique keys the consolidated flag is the recorded one
UsageCarriedOverByKey ==
    (ChamaConsolidated /\ EtlKeysUnique) =>
        \A i \in DOMAIN cons.files :
            \A j \in DOMAIN cons.files[i].mappings :
                \A k \in DOMAIN cons.files[i].mappings[j].fields :
                    cons.files[i].mappings[j].fields[k].is_used_in_system
                        = RecordedUsage(i, j, k)

\* the greatest index of a non-empty set of indices
LastOf(idx) == CHOOSE a \in idx : \A b \in idx : b <= a

\* is_used_in_system of the record that the usage comparison on disk holds
\* under the keys of field k of mapping j of file i of the ETL document:
\* the last file record with the name of the file, in it the last mapping
\* record with the map name, in it the last field record with the same
\* normalized source name ; FALSE when there is none
KeyedUsage(i, j, k) ==
    LET files == FilesOf(syscmp)
        etl_mapping == etl.files[i].mappings[j]
        fi == {a \in DOMAIN files : files[a].file_name = etl.files[i].name}
    IN IF fi = {} THEN FALSE
       ELSE LET mappings == files[LastOf(fi)].mappings
                mi == {a \in DOMAIN mappings : mappings[a].map = etl_mapping.map}
            IN IF mi = {} THEN FALSE
               ELSE LET fields == mappings[LastOf(mi)].fields
                        ki == {a \in DOMAIN fields :
                                  Canon(fields[a].from_santander)
                                    = Canon(etl_mapping.fields[k].from_santander)}
                    IN IF ki = {} THEN FALSE
                       ELSE fields[LastOf(ki)].is_used_in_system

\* is_used_in_system of the record that the Portal Turbo usage comparison
\* holds for column c of table i: in the last comparison of the
\* configuration, the last column with the same name_file as written, the
\* used columns counting before the unused ones ; FALSE when there is none
\* or the name is empty
PtKeyedUsage(i, c) ==
    LET comps == ComparisonsOf(ptSyscmp)
        etl_config == ptEtl.configs[i]
        ci == {a \in DOMAIN comps : comps[a].config_name = etl_config.config_name}
    IN IF ci = {} THEN FALSE
       ELSE LET cols == comps[LastOf(ci)].columns_used_in_system
                            \o comps[LastOf(ci)].columns_unused_in_system
                name_file == etl_config.columns[c].NameFile
                ki == {a \in DOMAIN cols :
                          cols[a].name_file = name_file /\ name_file # <<>>}
            IN IF ki = {} THEN FALSE ELSE cols[LastOf(ki)].is_used_in_system

PtUsageCarriedOverByKeys ==
    PtConsolidated =>
        \A i \in DOMAIN ptCons.tables :
            \A c \in DOMAIN ptCons.tables[i].columns :
                ptCons.tables[i].columns[c].is_used_in_system = PtKeyedUsage(i, c)

\* C19, as the consolidator computes it: is_used_in_system of each
\* consolidated field is the value the usage comparison recorded under the
\* keys of the field (file name, map name, normalized source name; the last
\* record of a key counts), and false when the usage comparison has no
\* record for the file, the mapping or the field.  With unique keys that
\* record is the one at the same position.  Portal Turbo looks the column
\* up by its name_file as written.
C19_UsageCarriedOverByKeys ==
    /\ UsageCarriedOverByKey
    /\ PtUsageCarriedOverByKeys
    /\ ChamaConsolidated =>
          \A i \in DOMAIN cons.files :
              \A j \in DOMAIN cons.files[i].mappings :
                  \A k \in DOMAIN cons.files[i].mappings[j].fields :
                      cons.files[i].mappings[j].fields[k].is_used_in_system
                          = KeyedUsage(i, j, k)

\* a consolidated mapping with a field recorded as used and a field
\* recorded as unused, and a consolidated mapping without usage record
C19_Witness ==
    /\ ChamaConsolidated /\ syscmp # Absent /\ EtlKeysUnique
    /\ \E i \in DOMAIN cons.files : \E j \in DOMAIN cons.files[i].mappings :
          LET fields == cons.files[i].mappings[j].fields
          IN /\ \E k \in DOMAIN fields : fields[k].is_used_in_system
             /\ \E k \in DOMAIN fields : ~fields[k].is_used_in_system
             /\ \A k \in DOMAIN fields :
                    fields[k].is_used_in_system = RecordedUsage(i, j, k)

\* C19: in the consolidated document of Chama, is_used_in_system of each
\* field is the value the usage comparison recorded for the field at the
\* same position of the same mapping of the same file, and false when the
\* usage comparison has no record for it.
C19_UsageCarriedOver ==
    ChamaConsolidated =>
        \A i \in DOMAIN cons.files :
            \A j \in DOMAIN cons.files[i].mappings :
                \A k \in DOMAIN cons.files[i].mappings[j].fields :
                    cons.files[i].mappings[j].fields[k].is_used_in_system
                        = RecordedUsage(i, j, k)

\* the number of fields of a field list with the flag set
FlagCount(fields, flag) ==
    CountIdx(fields, {k \in DOMAIN fields : fields[k][flag]})

\* C20: for every consolidated mapping, total_fields is the number of
\* fields listed, exists_in_s3_count the number of listed fields with
\* exists_in_s3, used_in_system_count the number with is_used_in_system and
\* unused_in_system_count the rest; hence exists_in_s3_count lies between 0
\* and total_fields and the used and unused counts add up to total_fields.
C20_StatisticsAreCounts ==
    ChamaConsolidated =>
        \A i \in DOMAIN cons.files :
            \A j \in DOMAIN cons.files[i].mappings :
                LET m == cons.files[i].mappings[j]
                    st == m.statistics
                IN /\ st.total_fields = Len(m.fields)
                   /\ st.exists_in_s3_count = FlagCount(m.fields, "exists_in_s3")
                   /\ st.used_in_system_count = FlagCount(m.fields, "is_used_in_system")
                   /\ st.unused_in_system_count
                        = st.total_fields - st.used_in_system_count
                   /\ 0 <= st.exists_in_s3_count
                   /\ st.exists_in_s3_count <= st.total_fields
                   /\ st.used_in_system_count + st.unused_in_system_count
                        = st.total_fields

\* a consolidated mapping with a field found in S3 and unused in the system
\* next to a field used in the system and not found in S3
C20_Witness ==
    /\ ChamaConsolidated
    /\ \E i \in DOMAIN cons.files : \E j \in DOMAIN cons.files[i].mappings :
          LET m == cons.files[i].mappings[j]
          IN /\ m.statistics.total_fields = 2
             /\ m.statistics.exists_in_s3_count = 1
             /\ m.statistics.used_in_system_count = 1
             /\ \E k \in DOMAIN m.fields :
                    m.fields[k].exists_in_s3 /\ ~m.fields[k].is_used_in_system

\* ---------------------------------------------------------------------
\* Properties of the order of the comparison records
\* ---------------------------------------------------------------------

\* the keys are in strictly ascending order
Ascending(keys) ==
    \A i, j \in DOMAIN keys : i < j => KeyRank(keys[i]) < KeyRank(keys[j])

\* the last operation was this one and it wrote its document
Wrote(op) == last.op = op /\ last.status = "written"

\* the Chama comparison records are in ascending order of file_name
ChamaComparisonsSorted ==
    Wrote("chama_s3_compare") =>
        Ascending([i \in DOMAIN s3cmp.comparisons |-> s3cmp.comparisons[i].file_name])

\* the Consultor Turbo comparison records are in ascending order of base_name
CtComparisonsSorted ==
    Wrote("ct_s3_compare") =>
        Ascending([i \in DOMAIN ctS3cmp.comparisons |-> ctS3cmp.comparisons[i].base_name])

\* C21: the comparisons list of the ETL-vs-storage reconciler is in
\* ascending order of file key, whatever the order of the files in the ETL
\* and storage documents (Chama: file_name, Consultor Turbo: base_name).
C21_ComparisonsSorted == ChamaComparisonsSorted /\ CtComparisonsSorted

\* ---------------------------------------------------------------------
\* Properties of fields with the same normalized name
\* ---------------------------------------------------------------------

\* the named fields of file k of a document, in document order
NamedFieldsOf(doc, k) ==
    IF HasKey(FilesOf(doc), "name", k)
    THEN LET all == AllFields(LastWith(FilesOf(doc), "name", k).mappings)
         IN SelectIdx(all, {i \in DOMAIN all : all[i].from_santander # <<>>})
    ELSE <<>>

\* the last field of the list whose source name normalizes to n
LastNamed(fields, n) ==
    fields[CHOOSE i \in DOMAIN fields :
             /\ Canon(fields[i].from_santander) = n
             /\ \A j \in DOMAIN fields :
                    Canon(fields[j].from_santander) = n => j <= i]

\* the entries of a list of the record whose source name normalizes to n
EntriesNamed(list, n) == {i \in DOMAIN list : Canon(list[i].from_santander) = n}

\* the record c has one entry for the normalized name n, with the values of
\* the last S3 field and the last ETL field of that name
OneEntryLastWins(c, n) ==
    LET s3f == NamedFieldsOf(s3, c.file_name)
        etlf == NamedFieldsOf(etl, c.file_name)
        inS3 == n \in NamesOfFile(s3, c.file_name)
        inEtl == n \in NamesOfFile(etl, c.file_name)
        both == EntriesNamed(c.fields_in_both, n)
        onlyS3 == EntriesNamed(c.fields_only_in_s3, n)
        onlyEtl == EntriesNamed(c.fields_only_in_etl, n)
    IN /\ Cardinality(both) + Cardinality(onlyS3) + Cardinality(onlyEtl) = 1
       /\ \A i \in both :
            /\ inS3 /\ inEtl
            /\ c.fields_in_both[i] =
                 [from_santander |-> LastNamed(s3f, n).from_santander,
                  s3_laborit |-> LastNamed(s3f, n).laborit,
                  s3_type |-> LastNamed(s3f, n).type,
                  etl_laborit |-> LastNamed(etlf, n).laborit,
                  etl_type |-> LastNamed(etlf, n).type]
       /\ \A i \in onlyS3 :
            /\ inS3 /\ ~inEtl
            /\ c.fields_only_in_s3[i] =
                 [from_santander |-> LastNamed(s3f, n).from_santander,
                  laborit |-> LastNamed(s3f, n).laborit,
                  type |-> LastNamed(s3f, n).type]
       /\ \A i \in onlyEtl :
            /\ inEtl /\ ~inS3
            /\ c.fields_only_in_etl[i] =
                 [from_santander |-> LastNamed(etlf, n).from_santander,
                  laborit |-> LastNamed(etlf, n).laborit,
                  type |-> LastNamed(etlf, n).type]

\* C22: when several fields of the mappings of one file normalize to the
\* same source name, the comparison record has a single entry for that
\* name, carrying the raw source name, internal name and type of the last
\* such field in document order, and the name counts as one field in
\* etl_fields_count and s3_fields_count.
C22_DuplicateNamesLastWins ==
    Wrote("chama_s3_compare") =>
        \A i \in DOMAIN s3cmp.comparisons :
            LET c == s3cmp.comparisons[i]
                names == NamesOfFile(etl, c.file_name) \cup NamesOfFile(s3, c.file_name)
            IN /\ \A n \in names : OneEntryLastWins(c, n)
               /\ c.etl_fields_count = Cardinality(NamesOfFile(etl, c.file_name))
               /\ c.s3_fields_count = Cardinality(NamesOfFile(s3, c.file_name))

\* a compared file with two ETL fields of the same normalized name and
\* different raw values
C22_Witness ==
    /\ Wrote("chama_s3_compare")
    /\ \E i \in DOMAIN s3cmp.comparisons :
          LET c == s3cmp.comparisons[i]
              etlf == NamedFieldsOf(etl, c.file_name)
          IN /\ c.etl_fields_count = 1
             /\ \E j, k \in DOMAIN etlf :
                  /\ j < k
                  /\ Canon(etlf[j].from_santander) = Canon(etlf[k].from_santander)
                  /\ etlf[j].laborit # etlf[k].laborit

\* ---------------------------------------------------------------------
\* Properties of the list of mappings without system data
\* ---------------------------------------------------------------------

\* the (file, mapping record) pairs of the usage comparison, in document order
RECURSIVE MappingRecords(_)
MappingRecords(files) ==
    IF files = <<>> THEN <<>>
    ELSE LET n == Len(files)
         IN MappingRecords(SubSeq(files, 1, n - 1))
            \o [j \in DOMAIN files[n].mappings |->
                    [file_name |-> files[n].file_name,
                     map |-> files[n].mappings[j].map,
                     table |-> files[n].mappings[j].table,
                     has_system_data |-> files[n].mappings[j].has_system_data]]

\* the (file, mapping, table) triples of the mapping records without system
\* data, in document order
TriplesWithoutData(c) ==
    LET recs == MappingRecords(c.files)
        lacking == SelectIdx(recs, {i \in DOMAIN recs : ~recs[i].has_system_data})
    IN [i \in DOMAIN lacking |->
            [file_name |-> lacking[i].file_name, map |-> lacking[i].map,
             table |-> lacking[i].table]]

\* the (file, mapping, table) triples listed in etl_without_system
TriplesListed(c) ==
    [i \in DOMAIN c.etl_without_system |->
        [file_name |-> c.etl_without_system[i].file_name,
         map |-> c.etl_without_system[i].map,
         table |-> c.etl_without_system[i].table]]

\* C23: the triples of etl_without_system are exactly the (file, mapping,
\* table) triples of the mapping records with has_system_data = false, each
\* as many times, and etl_without_system_count is the number of those
\* mapping records.
C23_WithoutSystemExact ==
    syscmp # Absent =>
        /\ TriplesListed(syscmp) = TriplesWithoutData(syscmp)
        /\ syscmp.etl_without_system_count = Len(TriplesWithoutData(syscmp))

\* a usage comparison with a mapping that has system data and another that
\* has none
C23_Witness ==
    /\ Wrote("chama_sys_compare")
    /\ syscmp.etl_without_system_count = 1
    /\ \E i \in DOMAIN syscmp.files : \E j \in DOMAIN syscmp.files[i].mappings :
          syscmp.files[i].mappings[j].has_system_data

\* ---------------------------------------------------------------------
\* Properties of the extraction of the unused set
\* ---------------------------------------------------------------------

\* the unused set the usage comparison extracts for a table
UnusedSetOf(table) ==
    get_unused_columns(SystemDataOf(load_system_metadata(sys), table))

\* the unused set of every compared table is without the empty name
NoEmptyNameInUnusedSet ==
    Wrote("chama_sys_compare") =>
        \A i \in DOMAIN syscmp.files : \A j \in DOMAIN syscmp.files[i].mappings :
            <<>> \notin UnusedSetOf(syscmp.files[i].mappings[j].table)

\* no field with an empty internal name is flagged unused
EmptyNameNeverUnused ==
    Wrote("chama_sys_compare") =>
        \A i \in DOMAIN syscmp.files : \A j \in DOMAIN syscmp.files[i].mappings :
            LET m == syscmp.files[i].mappings[j]
            IN \A k \in DOMAIN m.fields :
                    m.fields[k].laborit = <<>> => m.fields[k].is_used_in_system

\* C24: null values of the dict encoding and null or empty entries of the
\* list encoding add no member to the unused set: the unused set of a
\* compared table never contains the empty name, and a field whose internal
\* name is empty is never flagged unused.
C24_NullAndEmptySkipped == NoEmptyNameInUnusedSet /\ EmptyNameNeverUnused

\* ---------------------------------------------------------------------
\* Properties of the order of the stages
\* ---------------------------------------------------------------------

\* stage a is reached before position k of the trace and after the ETL
\* document was generated
ReachedAfterEtlBefore(a, k) ==
    \E i, j \in DOMAIN trace :
        i < j /\ j < k /\ trace[i] = "etl" /\ trace[j] = a

\* C25: in every orchestrated run of a project, the ETL-vs-storage
\* comparison and the ETL-vs-system-usage comparison are both executed after
\* the ETL document of the run is written and before the consolidator of
\* the run reads its inputs.
C25_ComparisonsBeforeConsolidation ==
    \A k \in DOMAIN trace :
        trace[k] = "consolidate" =>
            /\ ReachedAfterEtlBefore("s3_compare", k)
            /\ ReachedAfterEtlBefore("sys_compare", k)

\* ---------------------------------------------------------------------
\* Properties of the check of fields_only_in_s3
\* ---------------------------------------------------------------------

\* the storage comparison on disk was computed from the ETL document on disk
ComputedFromEtl ==
    s3cmp # Absent /\ s3cmp = ChamaS3_compare_metadatas(s3, etl)

\* the entry list of the comparison record of a file has an entry whose
\* source name normalizes as the name does
MatchesEntryOf(list, file_name, name) ==
    \E c \in Range(ComparisonsOf(s3cmp)) :
        /\ c.file_name = file_name
        /\ \E x \in Range(c[list]) : Canon(x.from_santander) = Canon(name)

\* for the consolidated field, the check of fields_only_in_s3 finds nothing
\* and exists_in_s3 is the outcome of the check of fields_in_both
OnlyInS3CheckIdle(file_name, field) ==
    /\ ~MatchesEntryOf("fields_only_in_s3", file_name, field.from_santander)
    /\ field.exists_in_s3
          <=> MatchesEntryOf("fields_in_both", file_name, field.from_santander)

\* the ETL document has one file of that name
UniqueFileName(file_name) ==
    Cardinality({i \in DOMAIN etl.files : etl.files[i].name = file_name}) = 1

ChamaCountsConsistent ==
    Wrote("chama_s3_compare") =>
        \A i \in DOMAIN s3cmp.comparisons :
            LET c == s3cmp.comparisons[i]
            IN /\ c.fields_in_both_count + c.fields_only_in_s3_count = c.s3_fields_count
               /\ c.fields_in_both_count + c.fields_only_in_etl_count = c.etl_fields_count

\* the counts of every Consultor Turbo comparison record add up on both sides
CtCountsConsistent ==
    Wrote("ct_s3_compare") =>
        \A i \in DOMAIN ctS3cmp.comparisons :
            LET c == ctS3cmp.comparisons[i]
            IN /\ c.columns_in_both_count + c.columns_only_in_s3_count
                    = c.s3_columns_count
               /\ c.columns_in_both_count + c.columns_only_in_etl_count
                    = c.etl_columns_count

\* C28: in every ETL-vs-storage comparison record, fields_in_both_count +
\* fields_only_in_s3_count is the storage field count of the record and
\* fields_in_both_count + fields_only_in_etl_count is its ETL field count
\* (Chama: s3_fields_count, etl_fields_count; Consultor Turbo:
\* s3_columns_count, etl_columns_count), duplicate and empty names included.
C28_CountsConsistent == ChamaCountsConsistent /\ CtCountsConsistent


(***************************************************************************)
(* C27                                                                     *)
(***************************************************************************)
\* a request that writes a page of a mapping or table
IsPageWrite(ev) == ev.do \in {"create", "update"} /\ ev.item >= 1

\* the next write request after position a that is for another mapping or
\* table, 0 when there is none
NextPageWrite(a) ==
    IF \E b \in (a + 1)..Len(log) : IsPageWrite(log[b]) /\ log[b].item # log[a].item
    THEN CHOOSE b \in (a + 1)..Len(log) :
            /\ IsPageWrite(log[b]) /\ log[b].item # log[a].item
            /\ \A c \in (a + 1)..(b - 1) :
                  ~(IsPageWrite(log[c]) /\ log[c].item # log[a].item)
    ELSE 0

\* C27: in publish_from_json of the Chama and Portal Turbo publishers,
\* between the write requests for one mapping or table and the write request
\* for the next one the publisher waits the delay of the service (1 second
\* for Chama, 5 seconds for Portal Turbo), whatever the outcome of the
\* earlier page.
C27_DelayBetweenPages ==
    \A a \in DOMAIN log :
        (IsPageWrite(log[a]) /\ NextPageWrite(a) # 0) =>
            \E c \in (a + 1)..(NextPageWrite(a) - 1) :
                log[c].do = "sleep" /\ log[c].secs = Publish_delay(pub.svc)


(***************************************************************************)
(* C29                                                                     *)
(***************************************************************************)
\* publish_from_json has returned after the parent page was created or
\* updated
ReturnedWithParent == pub.at = "returned" /\ pub.parent_id # 0

\* the entry is about the item: same table, and same file and mapping
\* (Chama) or same configuration (Portal Turbo)
EntryOf(svc, entry, item) ==
    /\ entry.table = Item_table(svc, item)
    /\ IF svc = "chama"
       THEN entry.file = item.file_name /\ entry.mapping = item.mapping.map
       ELSE entry.config_name = item.config_name

\* the entries of the pages that failed, in order
FailedPages == SelectSeq(pub.pages, LAMBDA p : ~p.success)

\* C29: whenever the parent page was created or updated, publish_from_json
\* returns a result whose pages list has exactly one entry per mapping or
\* table of the consolidated document, in document order, whose success flag
\* is true if and only if every entry has success = true, and whose errors
\* list has exactly one entry per failed page.
C29_PublicationAccounting ==
    ReturnedWithParent =>
        /\ Len(pub.pages) = Len(pub.items)
        /\ \A i \in DOMAIN pub.pages : EntryOf(pub.svc, pub.pages[i], pub.items[i])
        /\ pub.success <=> \A i \in DOMAIN pub.pages : pub.pages[i].success
        /\ Len(pub.errors) = Len(FailedPages)
        /\ \A j \in DOMAIN pub.errors :
              /\ EntryOf(pub.svc, pub.errors[j], pub.items[
                     CHOOSE i \in DOMAIN pub.pages :
                        /\ ~pub.pages[i].success
                        /\ Cardinality({h \in 1..i : ~pub.pages[h].success}) = j])
              /\ pub.errors[j].error = FailedPages[j].error

\* a run of at least two pages where the first page failed and a later one
\* was written
C29_Witness ==
    /\ ReturnedWithParent
    /\ Len(pub.pages) >= 2
    /\ ~pub.pages[1].success
    /\ \E i \in DOMAIN pub.pages : i > 1 /\ pub.pages[i].success
    /\ ~pub.success


(***************************************************************************)
(* C30                                                                     *)
(***************************************************************************)
\* C30: within one publish_from_json run no page written for one mapping or
\* table is overwritten by the page of another one: the page_id values of
\* the successful entries of pages are pairwise distinct, also when two
\* mappings have the same table, hence the same page title, and the
\* fallback from create to update is taken.
C30_DistinctPageIds ==
    \A i, j \in DOMAIN pub.pages :
        (i < j /\ pub.pages[i].success /\ pub.pages[j].success) =>
            pub.pages[i].page_id # pub.pages[j].page_id

====
